---- MODULE Spec2Model ----
(***************************************************************************)
(* Model of the resilient GitHub API client (github_api/api_client.py):    *)
(* the transient-error classifier, the rate limiter, the circuit breaker   *)
(* and the four upstream operations wrapped by the tenacity retry layer.   *)
(* Every task is one asyncio task calling client operations; a step of a   *)
(* task runs from one suspension point (lock wait, sleep, HTTP await) to   *)
(* the next.                                                               *)
(***************************************************************************)
EXTENDS Integers, Sequences, FiniteSets, TLC

VARIABLES
    now,                        \* time.time(), in seconds
    rate_limit_remaining,       \* self.rate_limit_remaining
    rate_limit_reset,           \* self.rate_limit_reset
    rate_limit_lock,            \* holder of self._rate_limit_lock, 0 when free
    circuit_open,               \* self.circuit_open
    circuit_failures,           \* self.circuit_failures
    circuit_last_failure_time,  \* self.circuit_last_failure_time, NoTime for None
    circuit_lock,               \* holder of self._circuit_lock, 0 when free
    client_lock,                \* holder of self._client_lock, 0 when free
    client,                     \* self._client, None until the shared client is created
    upstream,                   \* what the provider holds: the repository pages
    pc,                         \* per task: where the task is suspended
    op,                         \* per task: the operation being invoked
    username,                   \* per task: the username argument (get_pull_requests)
    attempt,                    \* per task: tenacity's attempt_number
    wake_at,                    \* per task: deadline of the pending asyncio.sleep
    page,                       \* per task: get_repositories' page
    all_repos,                  \* per task: get_repositories' all_repos
    has_more,                   \* per task: get_repositories' has_more
    limit_reached,              \* per task: get_repositories' limit_reached
    outcome,                    \* per task: "none", "ok" or "raised"
    exc,                        \* per task: the exception raised last
    ret,                        \* per task: the value returned
    probe,                      \* per task: this attempt's breaker check closed the breaker
    att_sent,                   \* per task: HTTP requests issued by this attempt
    slept,                      \* per task: this attempt slept in _check_rate_limit
    rf_calls,                   \* per task: _record_failure() calls of this invocation
    fail_streak,                \* _record_failure() calls since the breaker was last reset
    calls,                      \* operations invoked so far
    cls_in,                     \* classifier harness: the failure handed to is_transient_error
    cls_out,                    \* classifier harness: its verdict, "none" before the call
    spc,                        \* per request: where get_user_complete_info is
    user_login,                 \* per request: get_user_complete_info's username
    svc_exc,                    \* per request: the exception get_user_complete_info raised
    response,                   \* per request: the user_info it returned
    ready,                      \* the event loop's queue of tasks created but not yet run
    op_calls,                   \* per request and operation: times the request invoked it
    auth_header,                \* per request: the Authorization header of the inbound request
    http_response,              \* per request: the Response the view returned
    proj_in,                    \* projection harness: the data handed to a _transform_*
    proj_out                    \* projection harness: what it returned, None before the call

vars == <<now, rate_limit_remaining, rate_limit_reset, rate_limit_lock,
          circuit_open, circuit_failures, circuit_last_failure_time,
          circuit_lock, client_lock, client, upstream,
          pc, op, username, attempt, wake_at, page, all_repos, has_more,
          limit_reached, outcome, exc, ret, probe, att_sent, slept,
          rf_calls, fail_streak, calls, cls_in, cls_out,
          spc, user_login, svc_exc, response, ready, op_calls,
          auth_header, http_response, proj_in, proj_out>>

lockVars == <<circuit_lock, client_lock>>
clientVars == <<rate_limit_remaining, rate_limit_reset, rate_limit_lock,
                circuit_open, circuit_failures, circuit_last_failure_time,
                lockVars, client>>
taskVars == <<pc, op, username, attempt, wake_at, page, all_repos, has_more,
              limit_reached, outcome, exc, ret, probe, att_sent,
              slept, rf_calls>>
clsVars == <<cls_in, cls_out>>
viewVars == <<auth_header, http_response>>
projVars == <<proj_in, proj_out>>
svcVars == <<spc, user_login, svc_exc, response, ready, op_calls, viewVars, projVars>>

----------------------------------------------------------------------------
(* Bounds of the model *)

MaxCalls == 3
MaxConcurrentCalls == 2
MaxRepoCalls == 2
MaxRateCalls == 3
MaxProbeCalls == 3
MaxTime == 70
MaxFullPages == 11
MaxRequests == 2
MaxHeaderChunks == 5
MaxUrlLen == 5
MaxRepos == 2
MaxGateCalls == 3
MaxLockCalls == 2

(* Program constants *)

circuit_failure_threshold == 5
circuit_reset_timeout == 60
RateLimitFloor == 10
RateLimitCeiling == 5000
InitialResetWindow == 3600
MaxAttempts == 3
max_pages == 10
per_page == 100
WaitMin == 2
WaitMax == 10

Tasks == {1, 2}
(* every task slot: an aggregation request uses four, one per operation *)
AllTasks == 1..(4 * MaxRequests)
Ops == {"get_user_info", "get_repositories", "get_organizations", "get_pull_requests"}
StartTime == 1
NoTime == 0

Min(a, b) == IF a < b THEN a ELSE b
Max(a, b) == IF a > b THEN a ELSE b

----------------------------------------------------------------------------
(* Failures: the exceptions an attempt can end with *)

(* msg is the text str() gives: every exception built here has a message;  *)
(* a transport error can come with none                                     *)
Exc(k, s, r) ==
    [kind |-> k, status |-> s, retry_after |-> r, retry_error |-> FALSE, msg |-> k]
NoExc == Exc("none", 0, 0)
TimeoutException == Exc("TimeoutException", 0, 0)
ConnectError == Exc("ConnectError", 0, 0)
ReadError == [Exc("ReadError", 0, 0) EXCEPT !.msg = ""]
ValueError == Exc("ValueError", 0, 0)
HTTPStatusError(s) == Exc("HTTPStatusError", s, 0)
CircuitOpenError(r) == Exc("CircuitOpen", 0, r)
(* tenacity's RetryError, raised when the attempts are used up; it wraps e *)
RetryError(e) == [e EXCEPT !.retry_error = TRUE]

(* is_transient_error: timeouts, 5xx and 429 are retried, nothing else is *)
is_transient_error_low(e) ==
    IF e.kind = "TimeoutException" THEN TRUE
    ELSE IF e.kind = "HTTPStatusError"
         THEN e.status > 500 \/ e.status = 429
         ELSE FALSE

is_transient_error_network(e) ==
    IF e.kind \in {"TimeoutException", "ConnectError"} THEN TRUE
    ELSE IF e.kind = "HTTPStatusError"
         THEN e.status >= 500 \/ e.status = 429
         ELSE FALSE

is_transient_error_circuit(e) ==
    IF e.kind \in {"TimeoutException", "CircuitOpen"} THEN TRUE
    ELSE IF e.kind = "HTTPStatusError"
         THEN e.status >= 500 \/ e.status = 429
         ELSE FALSE

is_transient_error(e) ==
    IF e.kind = "TimeoutException" THEN TRUE
    ELSE IF e.kind = "HTTPStatusError"
         THEN e.status >= 500 \/ e.status = 429
         ELSE FALSE

----------------------------------------------------------------------------
(* The retry layer: @retry(stop_after_attempt(3), wait_exponential(1, 2, 10), *)
(* retry_if_exception(is_transient_error))                                  *)

stop_after_attempt_late(n) == n >= MaxAttempts + 1

stop_after_attempt(n) == n >= MaxAttempts

RECURSIVE Pow2(_)
Pow2(n) == IF n <= 0 THEN 1 ELSE 2 * Pow2(n - 1)

wait_exponential(n) == Max(WaitMin, Min(1 * Pow2(n - 1), WaitMax))

----------------------------------------------------------------------------
(* The circuit breaker, as functions of the breaker's state *)

Circuit(o, f, l) == [open |-> o, failures |-> f, last |-> l]
CircuitNow == Circuit(circuit_open, circuit_failures, circuit_last_failure_time)

(* _check_circuit_breaker: the state it leaves and the exception it raises *)
check_circuit_breaker_keeps_open(c, t_now) ==
    IF c.open /\ c.last # NoTime
    THEN IF t_now - c.last >= circuit_reset_timeout
         THEN [state |-> Circuit(TRUE, 0, c.last), raised |-> NoExc, closed |-> TRUE]
         ELSE [state |-> c,
               raised |-> CircuitOpenError(circuit_reset_timeout - (t_now - c.last)),
               closed |-> FALSE]
    ELSE [state |-> c, raised |-> NoExc, closed |-> FALSE]

check_circuit_breaker_counts(c, t_now) ==
    IF c.open /\ c.last # NoTime
    THEN IF t_now - c.last >= circuit_reset_timeout
         THEN [state |-> Circuit(FALSE, 0, c.last), raised |-> NoExc, closed |-> TRUE]
         ELSE [state |-> Circuit(c.open, c.failures + 1, c.last),
               raised |-> CircuitOpenError(circuit_reset_timeout - (t_now - c.last)),
               closed |-> FALSE]
    ELSE [state |-> c, raised |-> NoExc, closed |-> FALSE]

check_circuit_breaker_early(c, t_now) ==
    IF c.open /\ c.last # NoTime
    THEN IF t_now - c.last >= WaitMin
         THEN [state |-> Circuit(FALSE, 0, c.last), raised |-> NoExc, closed |-> TRUE]
         ELSE [state |-> c,
               raised |-> CircuitOpenError(circuit_reset_timeout - (t_now - c.last)),
               closed |-> FALSE]
    ELSE [state |-> c, raised |-> NoExc, closed |-> FALSE]

check_circuit_breaker(c, t_now) ==
    IF c.open /\ c.last # NoTime
    THEN IF t_now - c.last >= circuit_reset_timeout
         THEN [state |-> Circuit(FALSE, 0, c.last), raised |-> NoExc, closed |-> TRUE]
         ELSE [state |-> c,
               raised |-> CircuitOpenError(circuit_reset_timeout - (t_now - c.last)),
               closed |-> FALSE]
    ELSE [state |-> c, raised |-> NoExc, closed |-> FALSE]

(* _record_success *)
record_success(c) ==
    IF c.failures > 0 THEN Circuit(FALSE, 0, c.last) ELSE c

(* _record_failure *)
record_failure_late(c, t_now) ==
    Circuit(IF c.failures + 1 > circuit_failure_threshold THEN TRUE ELSE c.open,
            c.failures + 1, t_now)

record_failure_reopens(c, t_now) ==
    Circuit(IF c.failures + 1 >= circuit_failure_threshold
               \/ (c.failures = 0 /\ c.last # NoTime)
            THEN TRUE ELSE c.open,
            c.failures + 1, t_now)

record_failure_untimed(c, t_now) ==
    Circuit(IF c.failures + 1 >= circuit_failure_threshold THEN TRUE ELSE c.open,
            c.failures + 1, c.last)

record_failure(c, t_now) ==
    Circuit(IF c.failures + 1 >= circuit_failure_threshold THEN TRUE ELSE c.open,
            c.failures + 1, t_now)

SetCircuit(c) ==
    /\ circuit_open' = c.open
    /\ circuit_failures' = c.failures
    /\ circuit_last_failure_time' = c.last

----------------------------------------------------------------------------
(* The rate limiter *)

(* _check_rate_limit, up to its sleep: does the caller sleep, and how long *)
rate_limit_wait_strict(remaining, reset, t_now) ==
    IF remaining < RateLimitFloor /\ reset - t_now > 0 THEN reset - t_now ELSE 0

rate_limit_wait(remaining, reset, t_now) ==
    IF remaining <= RateLimitFloor /\ reset - t_now > 0 THEN reset - t_now ELSE 0

(* Response headers: X-RateLimit-Remaining and X-RateLimit-Reset; NoHeader  *)
(* stands for an absent header, a reset header is an offset from now        *)
NoHeader == -1
HdrRemaining == {NoHeader, RateLimitFloor, RateLimitFloor + 1}
HdrResetOffset == {NoHeader, 60}

(* _update_rate_limit_from_response *)
update_remaining_lowest(hr) ==
    IF hr # NoHeader /\ hr < rate_limit_remaining THEN hr ELSE rate_limit_remaining

update_remaining(hr) == IF hr # NoHeader THEN hr ELSE rate_limit_remaining
update_reset(hs) == IF hs # NoHeader THEN now + hs ELSE rate_limit_reset

UpdateRateLimit(hr, hs) ==
    /\ rate_limit_remaining' = update_remaining(hr)
    /\ rate_limit_reset' = update_reset(hs)

----------------------------------------------------------------------------
(* Response bodies: the JSON type of the payload and, for an object, its    *)
(* keys and whether its "items" member is a list; the login it gives, if   *)
(* its array elements are objects, and the offset of their ids             *)

Body(ty, ks, il) ==
    [type |-> ty, keys |-> ks, items_list |-> il, login |-> "octocat",
     objects |-> TRUE, first_id |-> 0]
Bodies == { Body("dict", {"login"}, FALSE), Body("dict", {}, FALSE),
            Body("dict", {"items"}, TRUE), Body("dict", {"items"}, FALSE),
            Body("list", {}, FALSE), Body("str", {}, FALSE) }

(* _validate_response_structure; key = "" stands for key=None *)
validate_response_structure(data, expected_type, key) ==
    IF data.type # expected_type THEN FALSE
    ELSE IF key # "" /\ data.type = "dict" /\ key \notin data.keys THEN FALSE
    ELSE TRUE

(* What the provider holds.  Repository page p holds upstream.size items    *)
(* when p <= upstream.full and is empty after; the pages in upstream.links  *)
(* carry a Link header with rel="next".                                     *)
PageItems(p) ==
    IF p <= upstream.full
    THEN [i \in 1..upstream.size |-> (p - 1) * upstream.size + i]
    ELSE <<>>
LinkNext(p) == p \in upstream.links
OrgItems == <<1>>
PullItems == <<1, 2>>
(* An element of a JSON array that is not an object *)
NonObject == 0
(* The elements the client takes from body b, xs when they are objects *)
Items(b, xs) ==
    [i \in 1..Len(xs) |-> IF b.objects THEN b.first_id + xs[i] ELSE NonObject]
(* get_user_info returns the body: its login is what the service reads *)
user_data(b) == <<b.login>>

Result(d, tf, hm, lr, pf) ==
    [data |-> d, total_fetched |-> tf, has_more |-> hm, limit_reached |-> lr,
     pages_fetched |-> pf]
NoResult == Result(<<>>, 0, FALSE, FALSE, 0)

(* get_repositories' loop: while page <= max_pages *)
loop_continues_past_cap(p) == p <= max_pages + 1

loop_continues(p) == p <= max_pages

(* get_repositories: limit_reached is set by a next link seen at the cap *)
hits_limit_any_link(link, p) == link

hits_limit(link, p) == link /\ p >= max_pages

(* get_repositories' metadata dictionary *)
pages_fetched_counting_empty(p, stopped_on_empty) ==
    IF stopped_on_empty THEN p ELSE p - 1

pages_fetched(p, stopped_on_empty) == p - 1

repositories_result(repos, hm, lr, p, stopped_on_empty) ==
    Result(repos, Len(repos), hm, lr, pages_fetched(p, stopped_on_empty))

----------------------------------------------------------------------------
(* The aggregation service (services/github_service.py):                   *)
(* GitHubService.get_user_complete_info.  Request r runs get_user_info in  *)
(* task slot Slot(r, 1) and the three calls it hands to asyncio.gather in  *)
(* the slots Slot(r, 2..4).                                                 *)

Requests == 1..MaxRequests
Slot(r, i) == 4 * (r - 1) + i
RequestOf(t) == ((t - 1) \div 4) + 1

(* The login the provider reports for the token of request r *)
Logins == <<"octocat", "hubot", "monalisa", "defunkt">>
Login(r) == Logins[r]

(* Bodies of 2xx responses as the service can meet them: also a login that *)
(* is null or empty, and arrays whose elements are not objects             *)
EmptyLogin == [Body("dict", {"login"}, FALSE) EXCEPT !.login = ""]
StringList == [Body("list", {}, FALSE) EXCEPT !.objects = FALSE]
StringItems == [Body("dict", {"items"}, TRUE) EXCEPT !.objects = FALSE]
AggBodies == Bodies \cup {EmptyLogin, StringList, StringItems}
(* The bodies the provider answers to the token of request r: its login,   *)
(* and items with ids of its own                                           *)
IdsPerUser == 10000
Own(r, b) == [b EXCEPT !.login = Login(r), !.first_id = IdsPerUser * (r - 1)]
UserBody(r) == Own(r, Body("dict", {"login"}, FALSE))
ListBody(r) == Own(r, Body("list", {}, FALSE))
SearchBody(r) == Own(r, Body("dict", {"items"}, TRUE))

(* Python's None and a value that is not None *)
None == <<>>
(* the shared httpx.AsyncClient *)
AsyncClient == <<"AsyncClient">>
Some(x) == <<x>>

(* str(exception) *)
Str(e) == IF e.retry_error THEN "RetryError" ELSE e.msg

(* any([...]) tests truth: None and the empty string are both false *)
truthy(x) == x # None /\ x # Some("")

(* if not username *)
usable_any(login) == TRUE

usable(login) == login # ""

(* The coroutines handed to asyncio.gather, in order, and their tasks *)
FanOutOps_repeated == <<"get_repositories", "get_repositories", "get_pull_requests">>

FanOutOps == <<"get_repositories", "get_organizations", "get_pull_requests">>

gather_tasks_first_only(r) == <<Slot(r, 2)>>

gather_tasks(r) == <<Slot(r, 2), Slot(r, 3), Slot(r, 4)>>

(* await asyncio.gather(...): the join is over when every task is done *)
gather_done_first(ts) == \E i \in 1..Len(ts) : pc[ts[i]] = "done"

gather_done(ts) == \A i \in 1..Len(ts) : pc[ts[i]] = "done"

(* What gather(return_exceptions=True) hands back for task t *)
GatherResult(t) ==
    IF outcome[t] = "raised"
    THEN [failed |-> TRUE, error |-> exc[t], value |-> NoResult]
    ELSE [failed |-> FALSE, error |-> NoExc, value |-> ret[t]]

(* _transform_repositories, _transform_organizations,                      *)
(* _transform_pull_requests: item.get(...) on every element, which raises  *)
(* AttributeError on an element that is not an object                      *)
AttributeError == Exc("AttributeError", 0, 0)
Projected(kind, x) == [kind |-> kind, id |-> x]
transform(kind, data) == [i \in 1..Len(data) |-> Projected(kind, data[i])]
transform_raises(data) == \E i \in 1..Len(data) : data[i] = NonObject

(* The error string of a sub-call: str(result) when it failed, else None *)
error_of(res) == IF res.failed THEN Some(Str(res.error)) ELSE None

(* repos_metadata *)
repos_metadata_with_quota(res, repositories) ==
    [total_fetched |-> Len(repositories), has_more |-> res.value.has_more,
     limit_reached |-> res.value.limit_reached,
     pages_fetched |-> res.value.pages_fetched,
     error |-> Some(<<rate_limit_remaining, circuit_failures>>)]

repos_metadata(res, repositories) ==
    IF res.failed
    THEN [total_fetched |-> 0, has_more |-> FALSE, limit_reached |-> FALSE,
          pages_fetched |-> 0, error |-> Some(Str(res.error))]
    ELSE [total_fetched |-> Len(repositories), has_more |-> res.value.has_more,
          limit_reached |-> res.value.limit_reached,
          pages_fetched |-> res.value.pages_fetched, error |-> None]

(* The dictionary get_user_complete_info returns *)
user_info(login, rr, ro, rp) ==
    LET repos_error == error_of(rr)
        orgs_error == error_of(ro)
        prs_error == error_of(rp)
        repositories == IF rr.failed THEN <<>>
                        ELSE transform("repository", rr.value.data)
    IN [user |-> login,
        repositories |-> repositories,
        repositories_metadata |-> repos_metadata(rr, repositories),
        organizations |-> IF ro.failed THEN <<>>
                          ELSE transform("organization", ro.value.data),
        pull_requests |-> IF rp.failed THEN <<>>
                          ELSE transform("pull_request", rp.value.data),
        partial_failures |-> [repositories |-> repos_error # None,
                              organizations |-> orgs_error # None,
                              pull_requests |-> prs_error # None],
        errors |-> IF truthy(repos_error) \/ truthy(orgs_error) \/ truthy(prs_error)
                   THEN Some([repositories |-> repos_error,
                              organizations |-> orgs_error,
                              pull_requests |-> prs_error])
                   ELSE None]

----------------------------------------------------------------------------
(* The inbound endpoint (github_api/views.py).  An Authorization header is *)
(* a sequence of chunks, each a run of whitespace or a run of other         *)
(* characters; no header, or an empty one, is the empty sequence.           *)

SP == " "
Words == {"Bearer", "bearer", "TOKEN", "Basic", "ghp_1"}
Alternates(h) == \A i \in 1..(Len(h) - 1) : (h[i] = SP) # (h[i + 1] = SP)
Headers ==
    { h \in UNION { [1..n -> Words \cup {SP}] : n \in 0..MaxHeaderChunks } :
        Alternates(h) }
DefaultHeader == <<"Bearer", SP, "ghp_1">>

(* str.split(): the runs that are not whitespace *)
IsWord(c) == c # SP
split(h) == SelectSeq(h, IsWord)

(* str.lower() *)
lower(w) ==
    CASE w \in {"Bearer", "bearer"} -> "bearer"
      [] w = "TOKEN" -> "token"
      [] w = "Basic" -> "basic"
      [] OTHER -> w

(* BearerTokenAuthentication.authenticate: the token, or None *)
authenticate_exact_case(h) ==
    IF h = <<>> THEN None
    ELSE IF Len(split(h)) # 2 THEN None
    ELSE IF split(h)[1] \in {"Bearer", "Token"} THEN Some(split(h)[2])
    ELSE None

authenticate(h) ==
    IF h = <<>> THEN None
    ELSE IF Len(split(h)) # 2 THEN None
    ELSE IF lower(split(h)[1]) \in {"bearer", "token"} THEN Some(split(h)[2])
    ELSE None

(* rest_framework's Response: the status and the body *)
Response(st, body) == [status |-> st, body |-> body]
ErrorBody(e, d, c) == [error |-> e, detail |-> d, status_code |-> c]
Unauthenticated ==
    Response(401, ErrorBody("Authentication required",
                            "Please provide a valid GitHub token", 401))

(* The except clauses of GitHubUserInfoView.get.  tenacity's RetryError is *)
(* neither an httpx.HTTPStatusError nor an httpx.TimeoutException.          *)
error_response(e) ==
    IF e.kind = "HTTPStatusError" /\ ~ e.retry_error
    THEN IF e.status = 401
         THEN Response(401, ErrorBody("Invalid GitHub token",
                                      "The provided token is invalid or expired", 401))
         ELSE IF e.status = 403
         THEN Response(403, ErrorBody("Insufficient permissions",
                                      "Token does not have required scopes", 403))
         ELSE Response(502, ErrorBody("GitHub API error",
                                      "GitHub returned status code", e.status))
    ELSE IF e.kind = "TimeoutException" /\ ~ e.retry_error
    THEN Response(408, ErrorBody("Request timeout",
                                 "GitHub API request took too long to respond", 408))
    ELSE Response(500, ErrorBody("Internal server error", Str(e), 500))

----------------------------------------------------------------------------
(* _transform_pull_requests: the repository of a pull request.  A string   *)
(* is the sequence of its characters.                                      *)

UrlChars == {"/", "r", "a", "w"}
Urls == UNION { [1..n -> UrlChars] : n \in 0..MaxUrlLen }
(* A pull request: whether it has the key repository_url, whether the      *)
(* value is null, and the string otherwise                                 *)
PullRequest(k, nl, u) == [has_url |-> k, null |-> nl, url |-> u]
PullRequestInputs ==
    {PullRequest(FALSE, FALSE, <<>>), PullRequest(TRUE, TRUE, <<>>)}
    \cup { PullRequest(TRUE, FALSE, u) : u \in Urls }
Unknown == <<"u", "n", "k", "n", "o", "w", "n">>

(* repo_url.split("/") *)
RECURSIVE split_slash(_)
split_slash(str) ==
    IF str = <<>> THEN << <<>> >>
    ELSE LET rest == split_slash(Tail(str))
         IN IF Head(str) = "/" THEN << <<>> >> \o rest
            ELSE << <<Head(str)>> \o Head(rest) >> \o Tail(rest)

(* "/".join(parts) *)
RECURSIVE join_slash(_)
join_slash(parts) ==
    IF parts = <<>> THEN <<>>
    ELSE IF Len(parts) = 1 THEN parts[1]
    ELSE parts[1] \o <<"/">> \o join_slash(Tail(parts))

(* parts[-2:] *)
last_one(parts) == SubSeq(parts, Len(parts), Len(parts))

last_two(parts) == SubSeq(parts, Max(1, Len(parts) - 1), Len(parts))

(* pr.get("repository_url", ""): a null value and the empty string are     *)
(* both false                                                              *)
repository_url(pr) == IF pr.has_url /\ ~ pr.null THEN pr.url ELSE <<>>

(* repo_name *)
repository_of(pr) ==
    IF repository_url(pr) = <<>> THEN Unknown
    ELSE join_slash(last_two(split_slash(repository_url(pr))))

----------------------------------------------------------------------------
(* _transform_repositories.  A repository is a JSON object: a function     *)
(* from the keys it has to their values.                                   *)

RepoKeys == {"name", "full_name", "private", "description", "html_url",
             "language", "created_at", "updated_at", "stargazers_count"}
(* The value of key k in the v-th repository of the provider *)
RepoValue(k, v) ==
    IF k = "private" THEN v = 1
    ELSE IF k = "stargazers_count" THEN v
    ELSE <<k, v>>
Repo(ks, v) == [k \in ks |-> RepoValue(k, v)]
RepoKeySets == { RepoKeys \cup {"id"}, RepoKeys \ {"private"},
                 RepoKeys \ {"stargazers_count"}, {"name"}, {} }
RepoInputs == { Repo(ks, v) : ks \in RepoKeySets, v \in 1..2 }
RepoLists == UNION { [1..n -> RepoInputs] : n \in 0..MaxRepos }

(* repo.get(k) and repo.get(k, default) on an absent key *)
get_default(k) ==
    IF k = "private" THEN FALSE
    ELSE IF k = "stargazers_count" THEN 0
    ELSE None

transform_repository(repo) ==
    [k \in RepoKeys |-> IF k \in DOMAIN repo THEN repo[k] ELSE get_default(k)]
transform_repositories_reversed(repos_data) ==
    [i \in 1..Len(repos_data) |->
        transform_repository(repos_data[Len(repos_data) + 1 - i])]

transform_repositories(repos_data) ==
    [i \in 1..Len(repos_data) |-> transform_repository(repos_data[i])]

(* What gather hands back for a get_repositories that returned repos_data *)
Fetched(repos_data) ==
    [failed |-> FALSE, error |-> NoExc,
     value |-> Result(repos_data, Len(repos_data), FALSE, FALSE,
                      IF repos_data = <<>> THEN 0 ELSE 1)]

----------------------------------------------------------------------------
(* State after construction: GitHubAPIClient.__init__, every task idle *)

rateVars == <<rate_limit_remaining, rate_limit_reset>>
circuitVars == <<circuit_open, circuit_failures, circuit_last_failure_time>>
repoVars == <<page, all_repos, has_more, limit_reached>>
callVars == <<op, username>>

Upstream(f, sz, ls) == [full |-> f, size |-> sz, links |-> ls]
(* the pages that advertise a next page when the provider reports it truly *)
TrueLinks(f) == 1..(f - 1)
LinkChoices(f) == { {}, TrueLinks(f), 1..f, {f + 1} }

InitClient ==
    /\ now = StartTime
    /\ rate_limit_remaining = RateLimitCeiling
    /\ rate_limit_reset = StartTime + InitialResetWindow
    /\ rate_limit_lock = 0
    /\ circuit_open = FALSE
    /\ circuit_failures = 0
    /\ circuit_last_failure_time = NoTime
    /\ circuit_lock = 0
    /\ client_lock = 0
    /\ client = None

InitTasks ==
    /\ pc = [t \in AllTasks |-> "idle"]
    /\ op = [t \in AllTasks |-> "none"]
    /\ username = [t \in AllTasks |-> ""]
    /\ attempt = [t \in AllTasks |-> 0]
    /\ wake_at = [t \in AllTasks |-> NoTime]
    /\ page = [t \in AllTasks |-> 1]
    /\ all_repos = [t \in AllTasks |-> <<>>]
    /\ has_more = [t \in AllTasks |-> FALSE]
    /\ limit_reached = [t \in AllTasks |-> FALSE]
    /\ outcome = [t \in AllTasks |-> "none"]
    /\ exc = [t \in AllTasks |-> NoExc]
    /\ ret = [t \in AllTasks |-> NoResult]
    /\ probe = [t \in AllTasks |-> FALSE]
    /\ att_sent = [t \in AllTasks |-> 0]
    /\ slept = [t \in AllTasks |-> FALSE]
    /\ rf_calls = [t \in AllTasks |-> 0]
    /\ fail_streak = 0
    /\ calls = 0
    /\ spc = [r \in Requests |-> "idle"]
    /\ user_login = [r \in Requests |-> ""]
    /\ svc_exc = [r \in Requests |-> NoExc]
    /\ response = [r \in Requests |-> None]
    /\ ready = <<>>
    /\ op_calls = [r \in Requests |-> [o \in Ops |-> 0]]
    /\ http_response = [r \in Requests |-> None]
    /\ proj_out = None

InitHeader == auth_header = [r \in Requests |-> DefaultHeader]

Init ==
    /\ InitClient
    /\ InitTasks
    /\ InitHeader
    /\ proj_in = None
    /\ upstream \in { Upstream(f, 2, TrueLinks(f)) : f \in 0..1 }
    /\ cls_in = NoExc
    /\ cls_out = "none"

----------------------------------------------------------------------------
(* Building blocks of the steps.  asyncio runs a task without interruption  *)
(* from one suspension to the next; a task suspends when it waits for the   *)
(* rate-limit lock, sleeps, or awaits the HTTP response.                    *)

DropLocals_keeps(t) == UNCHANGED repoVars

(* The locals of an attempt die when it returns or raises *)
DropLocals(t) ==
    /\ page' = [page EXCEPT ![t] = 1]
    /\ all_repos' = [all_repos EXCEPT ![t] = <<>>]
    /\ has_more' = [has_more EXCEPT ![t] = FALSE]
    /\ limit_reached' = [limit_reached EXCEPT ![t] = FALSE]

(* The retry layer's verdict on attempt n that raised e (tenacity):         *)
(* re-raise e when the predicate rejects it, RetryError when the attempts   *)
(* are used up, otherwise sleep wait_exponential and run the next attempt   *)
Raise(t, n, e) ==
    /\ DropLocals(t)
    /\ IF ~ is_transient_error(e)
       THEN /\ pc' = [pc EXCEPT ![t] = "done"]
            /\ outcome' = [outcome EXCEPT ![t] = "raised"]
            /\ exc' = [exc EXCEPT ![t] = e]
            /\ wake_at' = [wake_at EXCEPT ![t] = NoTime]
       ELSE IF stop_after_attempt(n)
       THEN /\ pc' = [pc EXCEPT ![t] = "done"]
            /\ outcome' = [outcome EXCEPT ![t] = "raised"]
            /\ exc' = [exc EXCEPT ![t] = RetryError(e)]
            /\ wake_at' = [wake_at EXCEPT ![t] = NoTime]
       ELSE /\ pc' = [pc EXCEPT ![t] = "backoff"]
            /\ outcome' = [outcome EXCEPT ![t] = "none"]
            /\ exc' = [exc EXCEPT ![t] = e]
            /\ wake_at' = [wake_at EXCEPT ![t] = now + wait_exponential(n)]

(* A normal return of the operation *)
ReturnValue(t, v) ==
    /\ DropLocals(t)
    /\ pc' = [pc EXCEPT ![t] = "done"]
    /\ outcome' = [outcome EXCEPT ![t] = "ok"]
    /\ ret' = [ret EXCEPT ![t] = v]
    /\ exc' = [exc EXCEPT ![t] = NoExc]
    /\ UNCHANGED wake_at

(* await self._record_success() *)
RecordSuccess(t) ==
    /\ SetCircuit(record_success(CircuitNow))
    /\ fail_streak' = 0
    /\ UNCHANGED rf_calls

(* await self._record_failure() *)
RecordFailure(t) ==
    /\ SetCircuit(record_failure(CircuitNow, now))
    /\ rf_calls' = [rf_calls EXCEPT ![t] = @ + 1]
    /\ fail_streak' = fail_streak + 1

NoRecord == UNCHANGED <<circuitVars, rf_calls, fail_streak>>

(* await client.get(...): the request goes out, the task awaits the answer; *)
(* a0 is the number of requests the attempt issued before                   *)
Request(t, a0) ==
    /\ pc' = [pc EXCEPT ![t] = "wait"]
    /\ att_sent' = [att_sent EXCEPT ![t] = a0 + 1]

(* self.timeout and the timeout each operation hands to _get_client: the    *)
(* settings name no timeout of their own for an operation, so all but      *)
(* get_repositories use self.timeout                                        *)
self_timeout == "GITHUB_API_TIMEOUT"
timeout_repos == "120"
timeout_of(o) == IF o = "get_repositories" THEN timeout_repos ELSE self_timeout

(* _get_client hands out a client of the call's own when the timeout is not *)
(* self.timeout, and the shared client otherwise                            *)
own_client(timeout) == timeout # self_timeout

(* self._client after _get_client(timeout) when it was c before *)
get_client(c, timeout) ==
    IF own_client(timeout) THEN c
    ELSE IF c = None THEN AsyncClient ELSE c

(* The first request of operation o's attempt, after _get_client and after  *)
(* get_repositories has set its locals                                      *)
FirstRequest(t, o) ==
    /\ client' = get_client(client, timeout_of(o))
    /\ Request(t, 0)
    /\ page' = [page EXCEPT ![t] = 1]
    /\ all_repos' = [all_repos EXCEPT ![t] = <<>>]
    /\ has_more' = [has_more EXCEPT ![t] = FALSE]
    /\ limit_reached' = [limit_reached EXCEPT ![t] = FALSE]

(* The body of _check_rate_limit once the lock is held: sleep holding the   *)
(* lock, or release it and go on to the request                             *)
RateLimitBody(t, o) ==
    LET w == rate_limit_wait(rate_limit_remaining, rate_limit_reset, now) IN
    IF w > 0
    THEN /\ rate_limit_lock' = t
         /\ pc' = [pc EXCEPT ![t] = "rl_sleep"]
         /\ wake_at' = [wake_at EXCEPT ![t] = now + w]
         /\ att_sent' = [att_sent EXCEPT ![t] = 0]
         /\ slept' = [slept EXCEPT ![t] = TRUE]
         /\ UNCHANGED <<repoVars, lockVars, client>>
    ELSE /\ FirstRequest(t, o)
         /\ wake_at' = [wake_at EXCEPT ![t] = NoTime]
         /\ slept' = [slept EXCEPT ![t] = FALSE]
         /\ UNCHANGED <<rate_limit_lock, lockVars>>

Attempt_limiter_first(t, n, o, u) ==
    IF o = "get_pull_requests" /\ u = ""
    THEN /\ Raise(t, n, ValueError)
         /\ probe' = [probe EXCEPT ![t] = FALSE]
         /\ att_sent' = [att_sent EXCEPT ![t] = 0]
         /\ slept' = [slept EXCEPT ![t] = FALSE]
         /\ UNCHANGED <<circuitVars, fail_streak, rate_limit_lock, lockVars, client>>
    ELSE IF rate_limit_lock = 0
            /\ rate_limit_wait(rate_limit_remaining, rate_limit_reset, now) > 0
    THEN /\ RateLimitBody(t, o)
         /\ probe' = [probe EXCEPT ![t] = FALSE]
         /\ outcome' = [outcome EXCEPT ![t] = "none"]
         /\ UNCHANGED <<circuitVars, fail_streak, exc>>
    ELSE LET r == check_circuit_breaker(CircuitNow, now) IN
         /\ SetCircuit(r.state)
         /\ probe' = [probe EXCEPT ![t] = r.closed]
         /\ fail_streak' = IF r.closed THEN 0 ELSE fail_streak
         /\ IF r.raised # NoExc
            THEN /\ Raise(t, n, r.raised)
                 /\ att_sent' = [att_sent EXCEPT ![t] = 0]
                 /\ slept' = [slept EXCEPT ![t] = FALSE]
                 /\ UNCHANGED <<rate_limit_lock, lockVars, client>>
            ELSE IF rate_limit_lock # 0
            THEN /\ pc' = [pc EXCEPT ![t] = "rl"]
                 /\ outcome' = [outcome EXCEPT ![t] = "none"]
                 /\ att_sent' = [att_sent EXCEPT ![t] = 0]
                 /\ slept' = [slept EXCEPT ![t] = FALSE]
                 /\ wake_at' = [wake_at EXCEPT ![t] = NoTime]
                 /\ UNCHANGED <<rate_limit_lock, lockVars, client, repoVars, exc>>
            ELSE /\ RateLimitBody(t, o)
                 /\ outcome' = [outcome EXCEPT ![t] = "none"]
                 /\ UNCHANGED exc

(* Attempt n of operation o, from the function's first statement to its     *)
(* first suspension: the username test of get_pull_requests, then           *)
(* _check_circuit_breaker, then _check_rate_limit, then the request         *)
Attempt(t, n, o, u) ==
    IF o = "get_pull_requests" /\ u = ""
    THEN /\ Raise(t, n, ValueError)
         /\ probe' = [probe EXCEPT ![t] = FALSE]
         /\ att_sent' = [att_sent EXCEPT ![t] = 0]
         /\ slept' = [slept EXCEPT ![t] = FALSE]
         /\ UNCHANGED <<circuitVars, fail_streak, rate_limit_lock, lockVars, client>>
    ELSE LET r == check_circuit_breaker(CircuitNow, now) IN
         /\ SetCircuit(r.state)
         /\ probe' = [probe EXCEPT ![t] = r.closed]
         /\ fail_streak' = IF r.closed THEN 0 ELSE fail_streak
         /\ IF r.raised # NoExc
            THEN /\ Raise(t, n, r.raised)
                 /\ att_sent' = [att_sent EXCEPT ![t] = 0]
                 /\ slept' = [slept EXCEPT ![t] = FALSE]
                 /\ UNCHANGED <<rate_limit_lock, lockVars, client>>
            ELSE IF rate_limit_lock # 0
            THEN /\ pc' = [pc EXCEPT ![t] = "rl"]
                 /\ outcome' = [outcome EXCEPT ![t] = "none"]
                 /\ att_sent' = [att_sent EXCEPT ![t] = 0]
                 /\ slept' = [slept EXCEPT ![t] = FALSE]
                 /\ wake_at' = [wake_at EXCEPT ![t] = NoTime]
                 /\ UNCHANGED <<rate_limit_lock, lockVars, client, repoVars, exc>>
            ELSE /\ RateLimitBody(t, o)
                 /\ outcome' = [outcome EXCEPT ![t] = "none"]
                 /\ UNCHANGED exc

----------------------------------------------------------------------------
(* The steps *)

(* A task invokes operation o: the retry layer runs the first attempt *)
Call(t, o, u) ==
    /\ pc[t] \in {"idle", "done"}
    /\ calls' = calls + 1
    /\ op' = [op EXCEPT ![t] = o]
    /\ username' = [username EXCEPT ![t] = u]
    /\ attempt' = [attempt EXCEPT ![t] = 1]
    /\ ret' = [ret EXCEPT ![t] = NoResult]
    /\ rf_calls' = [rf_calls EXCEPT ![t] = 0]
    /\ Attempt(t, 1, o, u)
    /\ UNCHANGED <<now, rateVars, upstream, clsVars>>

(* The backoff sleep is over: the retry layer runs the next attempt *)
BackoffWake(t) ==
    /\ pc[t] = "backoff"
    /\ now >= wake_at[t]
    /\ attempt' = [attempt EXCEPT ![t] = @ + 1]
    /\ Attempt(t, attempt[t] + 1, op[t], username[t])
    /\ UNCHANGED <<now, rateVars, upstream, callVars, ret, rf_calls, calls,
                   clsVars, svcVars>>

AcquireRateLimitLock_unlocked(t) ==
    /\ pc[t] = "rl"
    /\ RateLimitBody(t, op[t])
    /\ UNCHANGED <<now, rateVars, circuitVars, upstream, callVars, attempt,
                   outcome, exc, ret, probe, rf_calls, fail_streak, calls,
                   clsVars, svcVars>>

(* _check_rate_limit: the task that waited for the lock gets it *)
AcquireRateLimitLock(t) ==
    /\ pc[t] = "rl"
    /\ rate_limit_lock = 0
    /\ RateLimitBody(t, op[t])
    /\ UNCHANGED <<now, rateVars, circuitVars, upstream, callVars, attempt,
                   outcome, exc, ret, probe, rf_calls, fail_streak, calls,
                   clsVars, svcVars>>

RateLimitWake_keeps_lock(t) ==
    /\ pc[t] = "rl_sleep"
    /\ now >= wake_at[t]
    /\ rate_limit_remaining' = RateLimitCeiling
    /\ rate_limit_lock' = t
    /\ wake_at' = [wake_at EXCEPT ![t] = NoTime]
    /\ FirstRequest(t, op[t])
    /\ UNCHANGED <<now, rate_limit_reset, circuitVars, lockVars, upstream, callVars,
                   attempt, outcome, exc, ret, probe, slept, rf_calls,
                   fail_streak, calls, clsVars, svcVars>>

(* _check_rate_limit: asyncio.sleep(wait_time) is over; reset the quota,    *)
(* release the lock, go on to the request                                   *)
RateLimitWake(t) ==
    /\ pc[t] = "rl_sleep"
    /\ now >= wake_at[t]
    /\ rate_limit_remaining' = RateLimitCeiling
    /\ rate_limit_lock' = 0
    /\ wake_at' = [wake_at EXCEPT ![t] = NoTime]
    /\ FirstRequest(t, op[t])
    /\ UNCHANGED <<now, rate_limit_reset, circuitVars, lockVars, upstream, callVars,
                   attempt, outcome, exc, ret, probe, slept, rf_calls,
                   fail_streak, calls, clsVars, svcVars>>

(* response.raise_for_status() raises: except (HTTPStatusError, ...) records *)
(* the failure and re-raises into the retry layer                            *)
ReceiveStatusError(t, s) ==
    /\ pc[t] = "wait"
    /\ RecordFailure(t)
    /\ Raise(t, attempt[t], HTTPStatusError(s))
    /\ UNCHANGED <<now, rateVars, rate_limit_lock, lockVars, client, upstream, callVars, attempt,
                   ret, probe, att_sent, slept, calls, clsVars, svcVars>>

(* client.get raises httpx.TimeoutException *)
ReceiveTimeout(t) ==
    /\ pc[t] = "wait"
    /\ RecordFailure(t)
    /\ Raise(t, attempt[t], TimeoutException)
    /\ UNCHANGED <<now, rateVars, rate_limit_lock, lockVars, client, upstream, callVars, attempt,
                   ret, probe, att_sent, slept, calls, clsVars, svcVars>>

ReceiveConnectError_counted(t) ==
    /\ pc[t] = "wait"
    /\ RecordFailure(t)
    /\ Raise(t, attempt[t], ConnectError)
    /\ UNCHANGED <<now, rateVars, rate_limit_lock, lockVars, client, upstream, callVars, attempt,
                   ret, probe, att_sent, slept, calls, clsVars, svcVars>>

(* client.get raises httpx.ConnectError, which no except clause catches *)
ReceiveConnectError(t) ==
    /\ pc[t] = "wait"
    /\ NoRecord
    /\ Raise(t, attempt[t], ConnectError)
    /\ UNCHANGED <<now, rateVars, rate_limit_lock, lockVars, client, upstream, callVars, attempt,
                   ret, probe, att_sent, slept, calls, clsVars, svcVars>>

(* The transport fails with an error that carries no message: the except  *)
(* clause does not name it, the retry layer re-raises it                   *)
ReceiveReadError(t) ==
    /\ pc[t] = "wait"
    /\ NoRecord
    /\ Raise(t, attempt[t], ReadError)
    /\ UNCHANGED <<now, rateVars, rate_limit_lock, lockVars, client, upstream, callVars, attempt,
                   ret, probe, att_sent, slept, calls, clsVars, svcVars>>

(* get_user_info after a 2xx response with headers hr, hs and body b *)
ReceiveUser(t, hr, hs, b) ==
    /\ pc[t] = "wait"
    /\ op[t] = "get_user_info"
    /\ UpdateRateLimit(hr, hs)
    /\ IF ~ validate_response_structure(b, "dict", "")
       THEN Raise(t, attempt[t], ValueError) /\ NoRecord /\ UNCHANGED ret
       ELSE IF "login" \notin b.keys
       THEN Raise(t, attempt[t], ValueError) /\ NoRecord /\ UNCHANGED ret
       ELSE RecordSuccess(t) /\ ReturnValue(t, Result(user_data(b), 0, FALSE, FALSE, 0))
    /\ UNCHANGED <<now, rate_limit_lock, lockVars, client, upstream, callVars, attempt, probe,
                   att_sent, slept, calls, clsVars, svcVars>>

(* get_repositories after a 2xx response to the request for page[t]: one    *)
(* iteration of the while loop, then the next request or what follows the   *)
(* loop when it ends                                                        *)
ReceiveRepos(t, hr, hs, b) ==
    /\ pc[t] = "wait"
    /\ op[t] = "get_repositories"
    /\ IF page[t] = 1 THEN UpdateRateLimit(hr, hs) ELSE UNCHANGED rateVars
    /\ LET repos == IF validate_response_structure(b, "list", "")
                    THEN Items(b, PageItems(page[t])) ELSE <<>>
           link == LinkNext(page[t])
           repos2 == all_repos[t] \o repos
           hm2 == has_more[t] \/ link
           lr2 == limit_reached[t] \/ hits_limit(link, page[t])
       IN IF repos = <<>>
          THEN /\ RecordSuccess(t)
               /\ ReturnValue(t, repositories_result(all_repos[t], has_more[t],
                                    limit_reached[t], page[t], TRUE))
               /\ UNCHANGED att_sent
          ELSE IF loop_continues(page[t] + 1)
          THEN /\ all_repos' = [all_repos EXCEPT ![t] = repos2]
               /\ has_more' = [has_more EXCEPT ![t] = hm2]
               /\ limit_reached' = [limit_reached EXCEPT ![t] = lr2]
               /\ page' = [page EXCEPT ![t] = @ + 1]
               /\ Request(t, att_sent[t])
               /\ NoRecord
               /\ UNCHANGED <<outcome, exc, wake_at, ret>>
          ELSE /\ RecordSuccess(t)
               /\ ReturnValue(t, repositories_result(repos2, hm2, lr2,
                                    page[t] + 1, FALSE))
               /\ UNCHANGED att_sent
    /\ UNCHANGED <<now, rate_limit_lock, lockVars, client, upstream, callVars, attempt, probe,
                   slept, calls, clsVars, svcVars>>

(* get_organizations after a 2xx response *)
ReceiveOrgs(t, hr, hs, b) ==
    /\ pc[t] = "wait"
    /\ op[t] = "get_organizations"
    /\ UpdateRateLimit(hr, hs)
    /\ LET orgs == IF validate_response_structure(b, "list", "")
                   THEN Items(b, OrgItems) ELSE <<>>
       IN RecordSuccess(t) /\ ReturnValue(t, Result(orgs, 0, FALSE, FALSE, 0))
    /\ UNCHANGED <<now, rate_limit_lock, lockVars, client, upstream, callVars, attempt, probe,
                   att_sent, slept, calls, clsVars, svcVars>>

(* get_pull_requests after a 2xx response *)
ReceivePulls(t, hr, hs, b) ==
    /\ pc[t] = "wait"
    /\ op[t] = "get_pull_requests"
    /\ UpdateRateLimit(hr, hs)
    /\ IF ~ validate_response_structure(b, "dict", "items")
       THEN NoRecord /\ ReturnValue(t, NoResult)
       ELSE IF ~ b.items_list
       THEN NoRecord /\ ReturnValue(t, NoResult)
       ELSE RecordSuccess(t) /\ ReturnValue(t, Result(Items(b, PullItems), 0, FALSE, FALSE, 0))
    /\ UNCHANGED <<now, rate_limit_lock, lockVars, client, upstream, callVars, attempt, probe,
                   att_sent, slept, calls, clsVars, svcVars>>

(* Time passes.  The clock is observed only by the sleeps, the breaker's    *)
(* cooldown test and the rate limiter's wait_time, so it moves from one     *)
(* instant at which one of them changes its answer to a later one: the end  *)
(* of a pending sleep, the end of the cooldown, the quota reset.  A task    *)
(* may run late: the clock may pass a deadline before the task is resumed.  *)
Deadlines ==
    { wake_at[t] : t \in { u \in AllTasks : pc[u] \in {"rl_sleep", "backoff"} } }
    \cup (IF circuit_open /\ circuit_last_failure_time # NoTime
          THEN {circuit_last_failure_time + circuit_reset_timeout} ELSE {})
    \cup (IF rate_limit_remaining <= RateLimitFloor THEN {rate_limit_reset} ELSE {})

Tick(d) ==
    /\ d > now
    /\ d <= MaxTime
    /\ now' = d
    /\ UNCHANGED <<clientVars, upstream, taskVars, fail_streak, calls, clsVars, svcVars>>

----------------------------------------------------------------------------
(* The steps of get_user_complete_info.  A coroutine that is resumed, and  *)
(* the tasks gather has just created, run before the event loop looks at   *)
(* any later event: while one of them is pending nothing else steps.        *)

modelVars == <<now, clientVars, upstream, taskVars, fail_streak, calls, clsVars>>

(* get_user_info has ended and get_user_complete_info is to go on *)
PendingUser(r) == spc[r] = "user" /\ pc[Slot(r, 1)] = "done"

(* Every task of the gather has ended and get_user_complete_info is to go on *)
PendingGather(r) == spc[r] = "fanout" /\ gather_done(gather_tasks(r))

Quiet ==
    /\ ready = <<>>
    /\ \A r \in Requests : ~ PendingUser(r) /\ ~ PendingGather(r)

(* get_user_complete_info(token) is called: it awaits get_user_info, which *)
(* runs to its first suspension                                             *)
StartRequest(r) ==
    /\ Quiet
    /\ spc[r] = "idle"
    /\ Call(Slot(r, 1), "get_user_info", "")
    /\ spc' = [spc EXCEPT ![r] = "user"]
    /\ op_calls' = [op_calls EXCEPT ![r]["get_user_info"] = @ + 1]
    /\ UNCHANGED <<user_login, svc_exc, response, ready>>

(* get_user_info has ended: its exception propagates, or the username is   *)
(* taken from the data and, if there is one, gather creates the three tasks *)
UserReturned(r) ==
    LET t == Slot(r, 1) IN
    /\ PendingUser(r)
    /\ IF outcome[t] = "raised"
       THEN /\ spc' = [spc EXCEPT ![r] = "done"]
            /\ svc_exc' = [svc_exc EXCEPT ![r] = exc[t]]
            /\ UNCHANGED <<user_login, ready>>
       ELSE IF ~ usable(ret[t].data[1])
       THEN /\ spc' = [spc EXCEPT ![r] = "done"]
            /\ svc_exc' = [svc_exc EXCEPT ![r] = ValueError]
            /\ user_login' = [user_login EXCEPT ![r] = ret[t].data[1]]
            /\ UNCHANGED ready
       ELSE /\ spc' = [spc EXCEPT ![r] = "fanout"]
            /\ user_login' = [user_login EXCEPT ![r] = ret[t].data[1]]
            /\ ready' = ready \o gather_tasks(r)
            /\ UNCHANGED svc_exc
    /\ UNCHANGED <<response, op_calls, viewVars, projVars, modelVars>>

(* The event loop runs the oldest task gather created: its coroutine runs  *)
(* to its first suspension                                                  *)
RunReady ==
    /\ ready # <<>>
    /\ LET t == Head(ready)
           r == RequestOf(t)
           o == FanOutOps[t - Slot(r, 1)]
       IN /\ Call(t, o, IF o = "get_pull_requests" THEN user_login[r] ELSE "")
          /\ op_calls' = [op_calls EXCEPT ![r][o] = @ + 1]
    /\ ready' = Tail(ready)
    /\ UNCHANGED <<spc, user_login, svc_exc, response, viewVars, projVars>>

(* gather has every result: the three are unpacked and transformed, and    *)
(* user_info is returned, unless a transform raises                        *)
GatherReturned(r) ==
    LET rr == GatherResult(Slot(r, 2))
        ro == GatherResult(Slot(r, 3))
        rp == GatherResult(Slot(r, 4))
    IN /\ PendingGather(r)
       /\ spc' = [spc EXCEPT ![r] = "done"]
       /\ IF \E res \in {rr, ro, rp} : ~ res.failed /\ transform_raises(res.value.data)
          THEN /\ svc_exc' = [svc_exc EXCEPT ![r] = AttributeError]
               /\ UNCHANGED response
          ELSE /\ response' = [response EXCEPT
                                 ![r] = Some(user_info(user_login[r], rr, ro, rp))]
               /\ UNCHANGED svc_exc
       /\ UNCHANGED <<user_login, ready, op_calls, viewVars, projVars, modelVars>>

(* GitHubUserInfoView.get up to the call of the service: without a token  *)
(* it returns 401, with one it calls get_user_complete_info                *)
Get(r) ==
    /\ spc[r] = "idle"
    /\ http_response[r] = None
    /\ IF authenticate(auth_header[r]) = None
       THEN /\ http_response' = [http_response EXCEPT ![r] = Some(Unauthenticated)]
            /\ UNCHANGED <<spc, user_login, svc_exc, response, ready, op_calls,
                           auth_header, projVars, modelVars>>
       ELSE StartRequest(r) /\ UNCHANGED <<viewVars, projVars>>

(* get_user_complete_info has ended: the view returns 200 with user_info,  *)
(* or the Response of the except clause that matches the exception          *)
Respond(r) ==
    /\ spc[r] = "done"
    /\ http_response[r] = None
    /\ http_response' =
          [http_response EXCEPT
             ![r] = Some(IF response[r] # None THEN Response(200, response[r][1])
                         ELSE error_response(svc_exc[r]))]
    /\ UNCHANGED <<spc, user_login, svc_exc, response, ready, op_calls,
                   auth_header, projVars, modelVars>>

Usernames == {"", "octocat"}
Statuses == {401, 403, 404, 429, 500}
FewStatuses == {404, 500}

(* A task invokes an operation; only get_pull_requests takes a username *)
CallSteps(t) ==
    \E o \in Ops, u \in Usernames :
        /\ o # "get_pull_requests" => u = ""
        /\ Call(t, o, u)
        /\ UNCHANGED svcVars

(* The upstream fails the request, with a status in S *)
FailureSteps(t, S) ==
    \/ \E s \in S : ReceiveStatusError(t, s)
    \/ ReceiveTimeout(t)
    \/ ReceiveConnectError(t)

(* The upstream answers 2xx, with quota headers in HR and HS *)
SuccessSteps(t, HR, HS) ==
    \/ \E hr \in HR, hs \in HS, b \in Bodies : ReceiveUser(t, hr, hs, b)
    \/ \E hr \in HR, hs \in HS, b \in Bodies : ReceiveRepos(t, hr, hs, b)
    \/ \E hr \in HR, hs \in HS, b \in Bodies : ReceiveOrgs(t, hr, hs, b)
    \/ \E hr \in HR, hs \in HS, b \in Bodies : ReceivePulls(t, hr, hs, b)

(* Concurrent tasks sharing one client, the upstream reporting no quota *)
Next ==
    \/ \E t \in Tasks : calls < MaxConcurrentCalls /\ CallSteps(t)
    \/ \E t \in Tasks : BackoffWake(t)
    \/ \E t \in Tasks : FailureSteps(t, FewStatuses)
    \/ \E t \in Tasks : SuccessSteps(t, {NoHeader}, {NoHeader})
    \/ \E d \in Deadlines : Tick(d)

Spec == Init /\ [][Next]_vars

(* One task calling the client, one operation after the other *)
NextSeq ==
    \/ calls < MaxCalls /\ CallSteps(1)
    \/ BackoffWake(1)
    \/ RateLimitWake(1)
    \/ FailureSteps(1, Statuses)
    \/ SuccessSteps(1, HdrRemaining, HdrResetOffset)
    \/ \E d \in Deadlines : Tick(d)

SpecSeq == Init /\ [][NextSeq]_vars

(* Concurrent tasks sharing one client, the upstream answering every       *)
(* request and reporting its quota                                          *)
NextRate ==
    \/ \E t \in Tasks : calls < MaxRateCalls /\ CallSteps(t)
    \/ \E t \in Tasks : AcquireRateLimitLock(t)
    \/ \E t \in Tasks : RateLimitWake(t)
    \/ \E t \in Tasks : SuccessSteps(t, HdrRemaining, HdrResetOffset)
    \/ \E d \in Deadlines : Tick(d)

SpecRate == Init /\ [][NextRate]_vars

(* Concurrent identity fetches sharing one client, the upstream reporting   *)
(* its quota or timing out: tasks are suspended in requests, pacing sleeps  *)
(* and retry backoffs at the same time                                      *)
NextSuspend ==
    \/ \E t \in Tasks :
          /\ calls < MaxRateCalls
          /\ Call(t, "get_user_info", "")
          /\ UNCHANGED svcVars
    \/ \E t \in Tasks : AcquireRateLimitLock(t)
    \/ \E t \in Tasks : RateLimitWake(t)
    \/ \E t \in Tasks : BackoffWake(t)
    \/ \E t \in Tasks : ReceiveTimeout(t)
    \/ \E t \in Tasks, hr \in {NoHeader, RateLimitFloor} :
          ReceiveUser(t, hr, 60, UserBody(1))
    \/ \E d \in Deadlines : Tick(d)

SpecSuspend == Init /\ [][NextSuspend]_vars

(* Concurrent identity fetches, and pull-request searches without a        *)
(* username, sharing one client; the upstream times out, refuses the       *)
(* connection or answers; an answer may report a spent quota and may lack  *)
(* its login: the breaker can be open while the quota is spent              *)
NextGate ==
    \/ \E t \in Tasks :
          /\ calls < MaxGateCalls
          /\ \/ Call(t, "get_user_info", "")
             \/ Call(t, "get_pull_requests", "")
          /\ UNCHANGED svcVars
    \/ \E t \in Tasks : BackoffWake(t)
    \/ \E t \in Tasks : AcquireRateLimitLock(t)
    \/ \E t \in Tasks : RateLimitWake(t)
    \/ \E t \in Tasks : ReceiveTimeout(t)
    \/ \E t \in Tasks : ReceiveConnectError(t)
    \/ \E t \in Tasks : ReceiveUser(t, NoHeader, NoHeader, UserBody(1))
    \/ \E t \in Tasks : ReceiveUser(t, RateLimitFloor, 60, Body("dict", {}, FALSE))
    \/ \E d \in Deadlines : Tick(d)

SpecGate == Init /\ [][NextGate]_vars

----------------------------------------------------------------------------
(* The same operations at the grain of the locks: every `async with` of    *)
(* the client is two steps, the acquisition, which waits while another     *)
(* task holds the lock, and the block, which ends with the release.  A     *)
(* task stands at "cb", "rs", "rf" before the circuit lock of              *)
(* _check_circuit_breaker, _record_success, _record_failure, at "rl"       *)
(* before the rate-limit lock, at "gc" at the head of _get_client, at      *)
(* "gc_lock" before the client lock, and at the name with "_in" inside     *)
(* the block.                                                               *)

Inside(p) == CASE p = "cb" -> "cb_in" [] p = "rs" -> "rs_in" [] p = "rf" -> "rf_in"

lockRest == <<upstream, username, calls, clsVars, svcVars>>

(* A task invokes operation o: the retry layer starts the first attempt,   *)
(* which begins with _check_circuit_breaker                                 *)
InvokeOperation(t, o) ==
    /\ pc[t] \in {"idle", "done"}
    /\ calls' = calls + 1
    /\ op' = [op EXCEPT ![t] = o]
    /\ attempt' = [attempt EXCEPT ![t] = 1]
    /\ ret' = [ret EXCEPT ![t] = NoResult]
    /\ rf_calls' = [rf_calls EXCEPT ![t] = 0]
    /\ outcome' = [outcome EXCEPT ![t] = "none"]
    /\ exc' = [exc EXCEPT ![t] = NoExc]
    /\ att_sent' = [att_sent EXCEPT ![t] = 0]
    /\ pc' = [pc EXCEPT ![t] = "cb"]
    /\ UNCHANGED <<now, clientVars, upstream, username, wake_at, repoVars,
                   probe, slept, fail_streak, clsVars, svcVars>>

(* The backoff sleep is over: the retry layer starts the next attempt *)
RetryOperation(t) ==
    /\ pc[t] = "backoff"
    /\ now >= wake_at[t]
    /\ attempt' = [attempt EXCEPT ![t] = @ + 1]
    /\ pc' = [pc EXCEPT ![t] = "cb"]
    /\ wake_at' = [wake_at EXCEPT ![t] = NoTime]
    /\ UNCHANGED <<now, clientVars, op, repoVars, outcome, exc, ret, probe,
                   att_sent, slept, rf_calls, fail_streak, lockRest>>

(* async with self._circuit_lock: the lock is free and the task takes it *)
EnterCircuitLock(t) ==
    /\ pc[t] \in {"cb", "rs", "rf"}
    /\ circuit_lock = 0
    /\ circuit_lock' = t
    /\ pc' = [pc EXCEPT ![t] = Inside(pc[t])]
    /\ UNCHANGED <<now, rateVars, rate_limit_lock, circuitVars, client_lock,
                   client, op, attempt, wake_at, repoVars, outcome, exc, ret,
                   probe, att_sent, slept, rf_calls, fail_streak, lockRest>>

CheckCircuitBreaker_keeps_lock(t) ==
    /\ pc[t] = "cb_in"
    /\ LET r == check_circuit_breaker(CircuitNow, now) IN
       /\ SetCircuit(r.state)
       /\ probe' = [probe EXCEPT ![t] = r.closed]
       /\ fail_streak' = IF r.closed THEN 0 ELSE fail_streak
       /\ IF r.raised # NoExc
          THEN /\ Raise(t, attempt[t], r.raised)
               /\ UNCHANGED circuit_lock
          ELSE /\ pc' = [pc EXCEPT ![t] = "rl"]
               /\ circuit_lock' = 0
               /\ UNCHANGED <<repoVars, outcome, exc, wake_at>>
    /\ UNCHANGED <<now, rateVars, rate_limit_lock, client_lock, client, op,
                   attempt, ret, att_sent, slept, rf_calls, lockRest>>

(* The block of _check_circuit_breaker: the lock is released when the      *)
(* block is left, by its end or by the exception                            *)
CheckCircuitBreaker(t) ==
    /\ pc[t] = "cb_in"
    /\ circuit_lock' = 0
    /\ LET r == check_circuit_breaker(CircuitNow, now) IN
       /\ SetCircuit(r.state)
       /\ probe' = [probe EXCEPT ![t] = r.closed]
       /\ fail_streak' = IF r.closed THEN 0 ELSE fail_streak
       /\ IF r.raised # NoExc
          THEN Raise(t, attempt[t], r.raised)
          ELSE /\ pc' = [pc EXCEPT ![t] = "rl"]
               /\ UNCHANGED <<repoVars, outcome, exc, wake_at>>
    /\ UNCHANGED <<now, rateVars, rate_limit_lock, client_lock, client, op,
                   attempt, ret, att_sent, slept, rf_calls, lockRest>>

(* async with self._rate_limit_lock: the lock is free and the task takes it *)
EnterRateLimitLock(t) ==
    /\ pc[t] = "rl"
    /\ rate_limit_lock = 0
    /\ rate_limit_lock' = t
    /\ pc' = [pc EXCEPT ![t] = "rl_in"]
    /\ UNCHANGED <<now, rateVars, circuitVars, lockVars, client, op, attempt,
                   wake_at, repoVars, outcome, exc, ret, probe, att_sent,
                   slept, rf_calls, fail_streak, lockRest>>

(* The block of _check_rate_limit up to its sleep, or to its end *)
CheckRateLimit(t) ==
    /\ pc[t] = "rl_in"
    /\ LET w == rate_limit_wait(rate_limit_remaining, rate_limit_reset, now) IN
       IF w > 0
       THEN /\ pc' = [pc EXCEPT ![t] = "rl_sleep"]
            /\ wake_at' = [wake_at EXCEPT ![t] = now + w]
            /\ slept' = [slept EXCEPT ![t] = TRUE]
            /\ UNCHANGED rate_limit_lock
       ELSE /\ pc' = [pc EXCEPT ![t] = "gc"]
            /\ rate_limit_lock' = 0
            /\ slept' = [slept EXCEPT ![t] = FALSE]
            /\ UNCHANGED wake_at
    /\ UNCHANGED <<now, rateVars, circuitVars, lockVars, client, op, attempt,
                   repoVars, outcome, exc, ret, probe, att_sent, rf_calls,
                   fail_streak, lockRest>>

(* asyncio.sleep(wait_time) is over: reset the quota and leave the block *)
LeaveRateLimitSleep(t) ==
    /\ pc[t] = "rl_sleep"
    /\ now >= wake_at[t]
    /\ rate_limit_remaining' = RateLimitCeiling
    /\ rate_limit_lock' = 0
    /\ wake_at' = [wake_at EXCEPT ![t] = NoTime]
    /\ pc' = [pc EXCEPT ![t] = "gc"]
    /\ UNCHANGED <<now, rate_limit_reset, circuitVars, lockVars, client, op,
                   attempt, repoVars, outcome, exc, ret, probe, att_sent,
                   slept, rf_calls, fail_streak, lockRest>>

(* _get_client before its lock: a client of the call's own, or the shared  *)
(* client when there is one, and the request goes out; otherwise on to     *)
(* the client lock                                                          *)
GetClient(t) ==
    /\ pc[t] = "gc"
    /\ IF own_client(timeout_of(op[t])) \/ client # None
       THEN FirstRequest(t, op[t])
       ELSE /\ pc' = [pc EXCEPT ![t] = "gc_lock"]
            /\ UNCHANGED <<client, att_sent, repoVars>>
    /\ UNCHANGED <<now, rateVars, rate_limit_lock, circuitVars, lockVars, op,
                   attempt, wake_at, outcome, exc, ret, probe, slept,
                   rf_calls, fail_streak, lockRest>>

(* async with self._client_lock: the lock is free and the task takes it *)
EnterClientLock(t) ==
    /\ pc[t] = "gc_lock"
    /\ client_lock = 0
    /\ client_lock' = t
    /\ pc' = [pc EXCEPT ![t] = "gc_in"]
    /\ UNCHANGED <<now, rateVars, rate_limit_lock, circuitVars, circuit_lock,
                   client, op, attempt, wake_at, repoVars, outcome, exc, ret,
                   probe, att_sent, slept, rf_calls, fail_streak, lockRest>>

(* The block of _get_client: create the shared client unless another task  *)
(* did meanwhile, leave the block, and the request goes out                 *)
CreateClient(t) ==
    /\ pc[t] = "gc_in"
    /\ client_lock' = 0
    /\ FirstRequest(t, op[t])
    /\ UNCHANGED <<now, rateVars, rate_limit_lock, circuitVars, circuit_lock,
                   op, attempt, wake_at, outcome, exc, ret, probe, slept,
                   rf_calls, fail_streak, lockRest>>

(* client.get raises httpx.TimeoutException: on to _record_failure *)
TimeoutArrives(t) ==
    /\ pc[t] = "wait"
    /\ pc' = [pc EXCEPT ![t] = "rf"]
    /\ exc' = [exc EXCEPT ![t] = TimeoutException]
    /\ UNCHANGED <<now, clientVars, op, attempt, wake_at, repoVars, outcome,
                   ret, probe, att_sent, slept, rf_calls, fail_streak, lockRest>>

(* client.get raises httpx.ConnectError, which no except clause catches *)
ConnectErrorArrives(t) ==
    /\ pc[t] = "wait"
    /\ Raise(t, attempt[t], ConnectError)
    /\ UNCHANGED <<now, clientVars, op, attempt, ret, probe, att_sent, slept,
                   rf_calls, fail_streak, lockRest>>

(* A 2xx response with quota headers hr, hs and a well-formed body: on to  *)
(* _record_success                                                          *)
ResponseArrives(t, hr, hs) ==
    /\ pc[t] = "wait"
    /\ UpdateRateLimit(hr, hs)
    /\ pc' = [pc EXCEPT ![t] = "rs"]
    /\ UNCHANGED <<now, rate_limit_lock, circuitVars, lockVars, client, op,
                   attempt, wake_at, repoVars, outcome, exc, ret, probe,
                   att_sent, slept, rf_calls, fail_streak, lockRest>>

(* The block of _record_failure, then the raise into the retry layer *)
RecordFailureLocked(t) ==
    /\ pc[t] = "rf_in"
    /\ RecordFailure(t)
    /\ circuit_lock' = 0
    /\ Raise(t, attempt[t], exc[t])
    /\ UNCHANGED <<now, rateVars, rate_limit_lock, client_lock, client, op,
                   attempt, ret, probe, att_sent, slept, lockRest>>

(* What the operation returns for the answer of an upstream that holds a   *)
(* login and no repository                                                  *)
LockResult(o) ==
    IF o = "get_repositories"
    THEN repositories_result(<<>>, FALSE, FALSE, 1, TRUE)
    ELSE Result(user_data(UserBody(1)), 0, FALSE, FALSE, 0)

(* The block of _record_success, then the return *)
RecordSuccessLocked(t) ==
    /\ pc[t] = "rs_in"
    /\ RecordSuccess(t)
    /\ circuit_lock' = 0
    /\ ReturnValue(t, LockResult(op[t]))
    /\ UNCHANGED <<now, rateVars, rate_limit_lock, client_lock, client, op,
                   attempt, probe, att_sent, slept, lockRest>>

InitLocks ==
    /\ InitClient
    /\ InitTasks
    /\ InitHeader
    /\ proj_in = None
    /\ upstream = Upstream(0, per_page, {})
    /\ cls_in = NoExc
    /\ cls_out = "none"

(* Concurrent identity and repository fetches sharing one client, the      *)
(* upstream timing out, refusing the connection or answering, an answer    *)
(* with or without a spent quota                                            *)
NextLocks ==
    \/ \E t \in Tasks : \E o \in {"get_user_info", "get_repositories"} :
          calls < MaxLockCalls /\ InvokeOperation(t, o)
    \/ \E t \in Tasks : RetryOperation(t)
    \/ \E t \in Tasks : EnterCircuitLock(t)
    \/ \E t \in Tasks : CheckCircuitBreaker(t)
    \/ \E t \in Tasks : EnterRateLimitLock(t)
    \/ \E t \in Tasks : CheckRateLimit(t)
    \/ \E t \in Tasks : LeaveRateLimitSleep(t)
    \/ \E t \in Tasks : GetClient(t)
    \/ \E t \in Tasks : EnterClientLock(t)
    \/ \E t \in Tasks : CreateClient(t)
    \/ \E t \in Tasks : TimeoutArrives(t)
    \/ \E t \in Tasks : ConnectErrorArrives(t)
    \/ \E t \in Tasks : ResponseArrives(t, NoHeader, NoHeader)
    \/ \E t \in Tasks : ResponseArrives(t, RateLimitFloor, 60)
    \/ \E t \in Tasks : RecordFailureLocked(t)
    \/ \E t \in Tasks : RecordSuccessLocked(t)
    \/ \E d \in Deadlines : Tick(d)

SpecLocks == InitLocks /\ [][NextLocks]_vars

(* Concurrent pull-request searches sharing one client, the upstream       *)
(* answering 500 or 2xx                                                     *)
NextProbe ==
    \/ \E t \in Tasks :
          /\ calls < MaxProbeCalls
          /\ Call(t, "get_pull_requests", "octocat")
          /\ UNCHANGED svcVars
    \/ \E t \in Tasks : BackoffWake(t)
    \/ \E t \in Tasks : ReceiveStatusError(t, 500)
    \/ \E t \in Tasks, b \in Bodies : ReceivePulls(t, NoHeader, NoHeader, b)
    \/ \E d \in Deadlines : Tick(d)

SpecProbe == Init /\ [][NextProbe]_vars

(* The requests the provider lets time out during an aggregation *)
SlowOps == {"get_user_info", "get_pull_requests"}

(* One aggregation request, the upstream failing or answering 2xx with    *)
(* any body                                                                *)
NextAgg ==
    \/ StartRequest(1) /\ UNCHANGED <<viewVars, projVars>>
    \/ \E r \in Requests : UserReturned(r)
    \/ RunReady
    \/ \E r \in Requests : GatherReturned(r)
    \/ \E t \in AllTasks : Quiet /\ BackoffWake(t)
    \/ \E t \in AllTasks : Quiet /\ ReceiveStatusError(t, 404)
    \/ \E t \in AllTasks : Quiet /\ op[t] \in SlowOps /\ ReceiveTimeout(t)
    \/ \E t \in AllTasks : Quiet /\ ReceiveReadError(t)
    \/ \E t \in AllTasks, b \in AggBodies :
          Quiet /\ ReceiveUser(t, NoHeader, NoHeader, b)
    \/ \E t \in AllTasks, b \in AggBodies :
          Quiet /\ ReceiveRepos(t, NoHeader, NoHeader, b)
    \/ \E t \in AllTasks, b \in AggBodies :
          Quiet /\ ReceiveOrgs(t, NoHeader, NoHeader, b)
    \/ \E t \in AllTasks, b \in AggBodies :
          Quiet /\ ReceivePulls(t, NoHeader, NoHeader, b)
    \/ \E d \in Deadlines : Quiet /\ Tick(d)

SpecAgg == Init /\ [][NextAgg]_vars

(* One aggregation request from its call to its end: the upstream answers  *)
(* every request (2xx, 404 or a timeout), the identity answer may report a *)
(* spent quota that resets within the horizon, the client may hold up to   *)
(* max_pages + 1 full pages; the event loop keeps running and time passes  *)
InitTerm ==
    /\ InitClient
    /\ InitTasks
    /\ InitHeader
    /\ proj_in = None
    /\ upstream \in { Upstream(f, 2, TrueLinks(f)) : f \in {0, 1, MaxFullPages} }
    /\ cls_in = NoExc
    /\ cls_out = "none"

NextTerm ==
    \/ StartRequest(1) /\ UNCHANGED <<viewVars, projVars>>
    \/ UserReturned(1)
    \/ RunReady
    \/ GatherReturned(1)
    \/ \E t \in AllTasks : Quiet /\ BackoffWake(t)
    \/ \E t \in AllTasks : Quiet /\ AcquireRateLimitLock(t)
    \/ \E t \in AllTasks : Quiet /\ RateLimitWake(t)
    \/ \E t \in AllTasks : Quiet /\ ReceiveStatusError(t, 404)
    \/ \E t \in AllTasks : Quiet /\ op[t] \in SlowOps /\ ReceiveTimeout(t)
    \/ \E t \in AllTasks, hr \in {NoHeader, RateLimitFloor} :
          /\ Quiet
          /\ now + 60 <= MaxTime
          /\ ReceiveUser(t, hr, 60, UserBody(1))
    \/ \E t \in AllTasks : Quiet /\ ReceiveRepos(t, NoHeader, NoHeader, ListBody(1))
    \/ \E t \in AllTasks : Quiet /\ ReceiveOrgs(t, NoHeader, NoHeader, ListBody(1))
    \/ \E t \in AllTasks : Quiet /\ ReceivePulls(t, NoHeader, NoHeader, SearchBody(1))
    \/ \E d \in Deadlines : Quiet /\ Tick(d)

SpecTerm == InitTerm /\ [][NextTerm]_vars /\ WF_vars(NextTerm)

(* Concurrent aggregation requests on the one service and client, every   *)
(* upstream call answered 2xx with the data of the request's token         *)
NextAggPar ==
    \/ \E r \in Requests : StartRequest(r) /\ UNCHANGED <<viewVars, projVars>>
    \/ \E r \in Requests : UserReturned(r)
    \/ RunReady
    \/ \E r \in Requests : GatherReturned(r)
    \/ \E t \in AllTasks :
          Quiet /\ ReceiveUser(t, NoHeader, NoHeader, UserBody(RequestOf(t)))
    \/ \E t \in AllTasks :
          Quiet /\ ReceiveRepos(t, NoHeader, NoHeader, ListBody(RequestOf(t)))
    \/ \E t \in AllTasks :
          Quiet /\ ReceiveOrgs(t, NoHeader, NoHeader, ListBody(RequestOf(t)))
    \/ \E t \in AllTasks :
          Quiet /\ ReceivePulls(t, NoHeader, NoHeader, SearchBody(RequestOf(t)))

(* The event loop keeps running and the provider answers every request *)
SpecAggPar == Init /\ [][NextAggPar]_vars /\ WF_vars(NextAggPar)

(* One inbound request, with any Authorization header; the identity fetch *)
(* may fail in any way, the fan-out succeeds                               *)
InitView ==
    /\ InitClient
    /\ InitTasks
    /\ auth_header \in { [r \in Requests |-> IF r = 1 THEN h ELSE DefaultHeader] :
                           h \in Headers }
    /\ proj_in = None
    /\ upstream = Upstream(1, 2, TrueLinks(1))
    /\ cls_in = NoExc
    /\ cls_out = "none"

IdentityFetch(t) == Quiet /\ op[t] = "get_user_info"

NextView ==
    \/ Get(1)
    \/ \E r \in Requests : UserReturned(r)
    \/ RunReady
    \/ \E r \in Requests : GatherReturned(r)
    \/ Respond(1)
    \/ \E t \in AllTasks : Quiet /\ BackoffWake(t)
    \/ \E t \in AllTasks, s \in Statuses : IdentityFetch(t) /\ ReceiveStatusError(t, s)
    \/ \E t \in AllTasks : IdentityFetch(t) /\ ReceiveTimeout(t)
    \/ \E t \in AllTasks : IdentityFetch(t) /\ ReceiveConnectError(t)
    \/ \E t \in AllTasks, b \in AggBodies :
          Quiet /\ ReceiveUser(t, NoHeader, NoHeader, b)
    \/ \E t \in AllTasks :
          Quiet /\ ReceiveRepos(t, NoHeader, NoHeader, ListBody(1))
    \/ \E t \in AllTasks :
          Quiet /\ ReceiveOrgs(t, NoHeader, NoHeader, ListBody(1))
    \/ \E t \in AllTasks :
          Quiet /\ ReceivePulls(t, NoHeader, NoHeader, SearchBody(1))
    \/ \E d \in Deadlines : Quiet /\ Tick(d)

SpecView == InitView /\ [][NextView]_vars

(* _transform_pull_requests applied to one pull request, over every       *)
(* repository_url of up to MaxUrlLen characters                            *)
idleVars == <<spc, user_login, svc_exc, response, ready, op_calls, viewVars,
              modelVars>>

ProjectPull ==
    /\ proj_out = None
    /\ proj_in \in PullRequestInputs
    /\ proj_out' = Some(repository_of(proj_in))
    /\ UNCHANGED <<proj_in, idleVars>>

InitPull ==
    /\ InitClient
    /\ InitTasks
    /\ InitHeader
    /\ proj_in \in PullRequestInputs
    /\ upstream = Upstream(0, per_page, {})
    /\ cls_in = NoExc
    /\ cls_out = "none"

SpecPull == InitPull /\ [][ProjectPull]_vars

(* Aggregation requests for one and the same token, against unchanged     *)
(* upstream data: the quota headers vary from response to response and    *)
(* the search of the first call may time out before it is answered         *)
HdrQuota == {NoHeader, RateLimitFloor + 1}

TwoCalls == {1, 2}

NextAggSame ==
    \/ \E r \in TwoCalls : StartRequest(r) /\ UNCHANGED <<viewVars, projVars>>
    \/ \E r \in Requests : UserReturned(r)
    \/ RunReady
    \/ \E r \in Requests : GatherReturned(r)
    \/ \E t \in AllTasks : Quiet /\ BackoffWake(t)
    \/ Quiet /\ ReceiveTimeout(Slot(1, 4))
    \/ \E t \in AllTasks, hr \in HdrQuota :
          Quiet /\ ReceiveUser(t, hr, NoHeader, UserBody(1))
    \/ \E t \in AllTasks, hr \in HdrQuota :
          Quiet /\ ReceiveRepos(t, hr, NoHeader, ListBody(1))
    \/ \E t \in AllTasks :
          Quiet /\ ReceiveOrgs(t, NoHeader, NoHeader, ListBody(1))
    \/ \E t \in AllTasks :
          Quiet /\ ReceivePulls(t, NoHeader, NoHeader, SearchBody(1))
    \/ \E d \in Deadlines : Quiet /\ Tick(d)

SpecAggSame == Init /\ [][NextAggSame]_vars

(* The success branch for repositories: _transform_repositories and     *)
(* repos_metadata["total_fetched"], over lists of up to MaxRepos objects   *)
ProjectRepos ==
    /\ proj_out = None
    /\ proj_in \in RepoLists
    /\ proj_out' =
          Some([repositories |-> transform_repositories(proj_in),
                repositories_metadata |->
                    repos_metadata(Fetched(proj_in), transform_repositories(proj_in))])
    /\ UNCHANGED <<proj_in, idleVars>>

InitRepoProj ==
    /\ InitClient
    /\ InitTasks
    /\ InitHeader
    /\ proj_in \in RepoLists
    /\ upstream = Upstream(0, per_page, {})
    /\ cls_in = NoExc
    /\ cls_out = "none"

SpecRepoProj == InitRepoProj /\ [][ProjectRepos]_vars

(* One task listing repositories, over every provider content of up to   *)
(* MaxFullPages full pages                                                  *)
InitRepos ==
    /\ InitClient
    /\ InitTasks
    /\ InitHeader
    /\ proj_in = None
    /\ upstream \in { Upstream(f, per_page, ls) :
                        f \in 0..MaxFullPages, ls \in SUBSET (1..MaxFullPages) }
    /\ upstream.links \in LinkChoices(upstream.full)
    /\ cls_in = NoExc
    /\ cls_out = "none"

NextRepos ==
    \/ /\ calls < MaxRepoCalls
       /\ Call(1, "get_repositories", "")
       /\ UNCHANGED svcVars
    \/ BackoffWake(1)
    \/ \E s \in FewStatuses : ReceiveStatusError(1, s)
    \/ \E b \in Bodies : ReceiveRepos(1, NoHeader, NoHeader, b)
    \/ \E d \in Deadlines : Tick(d)

SpecRepos == InitRepos /\ [][NextRepos]_vars

----------------------------------------------------------------------------
(* The classifier on its own: is_transient_error applied to every failure *)

Failures ==
    { HTTPStatusError(s) : s \in 300..599 }
    \cup { CircuitOpenError(r) : r \in 1..circuit_reset_timeout }
    \cup { TimeoutException, ConnectError, ValueError, Exc("TypeError", 0, 0) }

Classify ==
    /\ cls_out = "none"
    /\ cls_out' = IF is_transient_error(cls_in) THEN "transient" ELSE "permanent"
    /\ UNCHANGED <<svcVars, now, clientVars, upstream, taskVars, fail_streak, calls, cls_in>>

NextFailure(e) ==
    /\ cls_out # "none"
    /\ cls_in' = e
    /\ cls_out' = "none"
    /\ UNCHANGED <<svcVars, now, clientVars, upstream, taskVars, fail_streak, calls>>

InitClassify ==
    /\ InitClient
    /\ InitTasks
    /\ InitHeader
    /\ proj_in = None
    /\ upstream = Upstream(0, per_page, {})
    /\ cls_in \in Failures
    /\ cls_out = "none"

NextClassify ==
    \/ Classify
    \/ \E e \in Failures : NextFailure(e)

SpecClassify == InitClassify /\ [][NextClassify]_vars

----------------------------------------------------------------------------
(* Properties *)

(* Task t runs _check_circuit_breaker in this step: it starts an attempt   *)
(* that gets past the username test                                         *)
BeforeCall(t) ==
    \/ \E o \in Ops, u \in Usernames :
          /\ ~ (o = "get_pull_requests" /\ u = "")
          /\ Call(t, o, u)
    \/ BackoffWake(t)

(* The breaker is open and the cooldown has not elapsed *)
InCooldown ==
    /\ circuit_open
    /\ circuit_last_failure_time # NoTime
    /\ now - circuit_last_failure_time < circuit_reset_timeout

(* The breaker is open and the cooldown has elapsed *)
CooldownOver ==
    /\ circuit_open
    /\ circuit_last_failure_time # NoTime
    /\ now - circuit_last_failure_time >= circuit_reset_timeout

(* Task t ended on the circuit-open error, its attempt having sent nothing *)
Rejected(t) ==
    /\ pc[t] = "done"
    /\ outcome[t] = "raised"
    /\ exc[t].kind = "CircuitOpen"
    /\ att_sent[t] = 0

(* C1: counting the _record_failure() calls made since the breaker was last *)
(* closed with no failures, the breaker is open exactly when there were     *)
(* failure_threshold (5) or more of them, and a _check_circuit_breaker()    *)
(* made then, before the cooldown is over, raises the circuit-open error    *)
(* without a request being sent.                                            *)
C1_OpensAtThreshold ==
    /\ [](circuit_open <=> fail_streak >= circuit_failure_threshold)
    /\ [][\A t \in Tasks :
            (BeforeCall(t) /\ fail_streak >= circuit_failure_threshold /\ InCooldown)
                => Rejected(t)']_vars

C1_Witness ==
    /\ fail_streak = circuit_failure_threshold
    /\ circuit_open
    /\ \E t \in Tasks : Rejected(t)

(* C2: a _check_circuit_breaker() made while the breaker is open and the    *)
(* cooldown is not over, by any of the four operations, ends the operation  *)
(* at once on the circuit-open error, which carries cooldown - elapsed > 0; *)
(* no request is sent, the retry layer does not retry, and the breaker's    *)
(* state is left as it was.                                                 *)
C2_FailsFastWhenOpen ==
    [][\A t \in Tasks :
         (BeforeCall(t) /\ InCooldown)
            => /\ Rejected(t)'
               /\ exc'[t].retry_after =
                     circuit_reset_timeout - (now - circuit_last_failure_time)
               /\ exc'[t].retry_after > 0
               /\ ~ exc'[t].retry_error
               /\ UNCHANGED <<circuitVars, fail_streak>>]_vars

C2_Witness ==
    \E t \in Tasks :
        /\ Rejected(t)
        /\ op[t] = "get_pull_requests"
        /\ exc[t].retry_after < circuit_reset_timeout
        /\ circuit_open

(* C4: in every reachable state, circuit_open implies that                  *)
(* circuit_failures has reached failure_threshold.                          *)
C4_OpenImpliesThreshold ==
    circuit_open => circuit_failures >= circuit_failure_threshold

C4_Witness ==
    /\ circuit_open
    /\ circuit_failures > circuit_failure_threshold

(* Task t's attempt was admitted by the breaker: it goes on to the rate    *)
(* limiter and the request                                                  *)
Admitted(t) == pc[t] \in {"rl", "rl_sleep", "wait"}

(* Task t's operation returns normally in this step *)
Returns(t) == pc[t] = "wait" /\ pc'[t] = "done" /\ outcome'[t] = "ok"

(* C3: a _check_circuit_breaker() made while the breaker is open and the    *)
(* cooldown is over admits the call and leaves the breaker closed with no   *)
(* failures; when the attempt it admitted returns normally, the breaker is  *)
(* closed with no failures.                                                 *)
C3_ClosesAfterCooldown ==
    [][\A t \in Tasks :
         /\ (BeforeCall(t) /\ CooldownOver)
               => (Admitted(t)' /\ ~ circuit_open' /\ circuit_failures' = 0)
         /\ (Returns(t) /\ probe[t])
               => (~ circuit_open' /\ circuit_failures' = 0)]_vars

(* Task t's operation ended in an upstream failure *)
FailedUpstream(t) ==
    /\ pc[t] = "done"
    /\ outcome[t] = "raised"
    /\ exc[t].kind \in {"HTTPStatusError", "TimeoutException"}

(* C5: an operation that ended in an upstream failure has called            *)
(* _record_failure() exactly once.                                          *)
C5_OneFailurePerOperation ==
    \A t \in Tasks : FailedUpstream(t) => rf_calls[t] = 1

(* C6: with one task, whenever an operation has returned normally the      *)
(* breaker is closed and circuit_failures is 0.                             *)
C6_SuccessResetsBreaker ==
    \A t \in Tasks :
        (pc[t] = "done" /\ outcome[t] = "ok")
            => (circuit_failures = 0 /\ ~ circuit_open)

(* C7: is_transient_error says transient for a timeout, for a status error *)
(* with status >= 500 and for status 429; it says permanent for the status  *)
(* errors 400..499 other than 429 and for every other kind of failure.      *)
C7_Classification ==
    cls_out # "none" =>
        /\ cls_in.kind = "TimeoutException" => cls_out = "transient"
        /\ (cls_in.kind = "HTTPStatusError" /\ cls_in.status >= 500)
              => cls_out = "transient"
        /\ (cls_in.kind = "HTTPStatusError" /\ cls_in.status = 429)
              => cls_out = "transient"
        /\ (cls_in.kind = "HTTPStatusError" /\ cls_in.status \in 400..499
               /\ cls_in.status # 429)
              => cls_out = "permanent"
        /\ cls_in.kind \notin {"TimeoutException", "HTTPStatusError"}
              => cls_out = "permanent"

C7_Witness ==
    /\ cls_in = HTTPStatusError(500)
    /\ cls_out = "transient"

(* The failures the retry layer is to retry *)
Retryable(e) ==
    \/ e.kind = "TimeoutException"
    \/ e.kind = "HTTPStatusError" /\ (e.status >= 500 \/ e.status = 429)

(* Task t's attempt ends in this step, raising *)
AttemptRaises(t) ==
    /\ pc[t] = "wait"
    /\ pc'[t] \in {"done", "backoff"}
    /\ ~ (pc'[t] = "done" /\ outcome'[t] = "ok")

(* C8: an invocation makes at most 3 attempts; a further attempt is made    *)
(* only after an attempt that ended in a transient failure; a permanent     *)
(* failure ends the operation at once with that failure; a success ends it; *)
(* the 3rd transient failure ends it with a failure.                        *)
C8_RetryDiscipline ==
    /\ [](\A t \in Tasks : attempt[t] <= MaxAttempts)
    /\ [][\A t \in Tasks :
            /\ attempt'[t] = attempt[t] + 1
                  => (pc[t] \in {"idle", "done"} /\ attempt[t] = 0)
                     \/ (pc[t] = "backoff" /\ Retryable(exc[t])
                         /\ attempt[t] < MaxAttempts)
            /\ (AttemptRaises(t) /\ ~ Retryable(exc'[t]))
                  => (pc'[t] = "done" /\ outcome'[t] = "raised"
                      /\ ~ exc'[t].retry_error /\ attempt'[t] = attempt[t])
            /\ (AttemptRaises(t) /\ Retryable(exc'[t]) /\ attempt[t] = MaxAttempts)
                  => (pc'[t] = "done" /\ outcome'[t] = "raised")
            /\ (AttemptRaises(t) /\ Retryable(exc'[t]) /\ attempt[t] < MaxAttempts)
                  => pc'[t] = "backoff"
            /\ pc[t] = "done"
                  => (attempt'[t] = attempt[t]
                      \/ (attempt'[t] = 1 /\ calls' = calls + 1))]_vars

C8_Witness ==
    \E t \in Tasks :
        /\ pc[t] = "done"
        /\ outcome[t] = "raised"
        /\ attempt[t] = MaxAttempts
        /\ exc[t].retry_error
        /\ rf_calls[t] = MaxAttempts

(* Task t runs the body of _check_rate_limit in this step: it comes out   *)
(* of it asleep or with its request sent                                    *)
Checked(t) ==
    /\ pc[t] \notin {"rl_sleep", "wait"}
    /\ pc'[t] \in {"rl_sleep", "wait"}

(* Task t's pacing sleep ends in this step *)
Wakes(t) == pc[t] = "rl_sleep" /\ pc'[t] # "rl_sleep"

(* C9 as stated: whenever _check_rate_limit() is entered with remaining    *)
(* <= 10 the task is suspended until rate_limit_reset and remaining is 5000 *)
(* when it returns; entered with remaining >= 11 it returns without         *)
(* suspending and leaves the rate-limit state unchanged.                    *)
C9_SleepsBelowFloor ==
    [][\A t \in Tasks :
         /\ (Checked(t) /\ rate_limit_remaining <= RateLimitFloor)
               => (pc'[t] = "rl_sleep" /\ wake_at'[t] = rate_limit_reset)
         /\ Wakes(t)
               => (now >= wake_at[t] /\ rate_limit_remaining' = RateLimitCeiling)
         /\ (Checked(t) /\ rate_limit_remaining >= RateLimitFloor + 1)
               => (pc'[t] = "wait" /\ UNCHANGED rateVars)]_vars

(* C9 as amended: entered with remaining <= 10 and rate_limit_reset still   *)
(* in the future, the task is suspended until rate_limit_reset and          *)
(* remaining is 5000 when _check_rate_limit() returns; entered with         *)
(* remaining >= 11, or with remaining <= 10 and rate_limit_reset already    *)
(* reached, it returns without suspending and leaves the rate-limit state   *)
(* unchanged.                                                               *)
C9_SleepsUntilReset ==
    [][\A t \in Tasks :
         /\ (Checked(t) /\ rate_limit_remaining <= RateLimitFloor
                /\ rate_limit_reset > now)
               => (pc'[t] = "rl_sleep" /\ wake_at'[t] = rate_limit_reset
                   /\ UNCHANGED rateVars)
         /\ Wakes(t)
               => (now >= wake_at[t] /\ rate_limit_remaining' = RateLimitCeiling
                   /\ pc'[t] = "wait")
         /\ (Checked(t) /\ (rate_limit_remaining >= RateLimitFloor + 1
                            \/ rate_limit_reset <= now))
               => (pc'[t] = "wait" /\ UNCHANGED rateVars)]_vars

C9_Witness ==
    \E t \in Tasks :
        /\ pc[t] = "wait"
        /\ slept[t]
        /\ rate_limit_remaining = RateLimitCeiling
        /\ now >= rate_limit_reset

(* The provider holds three pages of 100 repositories, and the listing has *)
(* returned after asking for four pages                                     *)
ThreePagesThenEmpty ==
    /\ upstream.full = 3
    /\ upstream.size = per_page
    /\ pc[1] = "done"
    /\ outcome[1] = "ok"
    /\ op[1] = "get_repositories"
    /\ att_sent[1] = 4

(* C10 as stated: three pages of 100 repositories followed by an empty page *)
(* give 300 items, has_more false, limit_reached false, pages_fetched 4.    *)
C10_ThreePagesCountsFour ==
    ThreePagesThenEmpty =>
        /\ Len(ret[1].data) = 300
        /\ ret[1].has_more = FALSE
        /\ ret[1].limit_reached = FALSE
        /\ ret[1].pages_fetched = 4

(* C10 as amended: three pages of 100 repositories followed by an empty     *)
(* page give 300 items, limit_reached false and pages_fetched 3 (the empty  *)
(* page is not counted); has_more is false when none of the three pages     *)
(* advertised a next link, and true when one did.                           *)
C10_ThreePagesCountsThree ==
    ThreePagesThenEmpty =>
        /\ Len(ret[1].data) = 300
        /\ ret[1].total_fetched = 300
        /\ ret[1].has_more = (upstream.links \cap (1..3) # {})
        /\ ret[1].limit_reached = FALSE
        /\ ret[1].pages_fetched = 3

C10_Witness ==
    /\ ThreePagesThenEmpty
    /\ Len(ret[1].data) = 300
    /\ upstream.links = {}

(* The listing of task 1 has returned normally *)
Listed == pc[1] = "done" /\ outcome[1] = "ok" /\ op[1] = "get_repositories"

(* The provider's pages 1..k, one after the other *)
RECURSIVE PagesUpTo(_)
PagesUpTo(k) == IF k <= 0 THEN <<>> ELSE PagesUpTo(k - 1) \o PageItems(k)

(* C11: within one attempt get_repositories requests pages 1, 2, ... in     *)
(* increasing order, goes on to the next page only after a non-empty page   *)
(* below the cap, never sends more than max_pages (10) requests, and        *)
(* returns the pages it collected in page order, total_fetched being the    *)
(* length of the list, at most 1000.                                        *)
C11_PagesInOrder ==
    /\ [](pc[1] = "wait" => (page[1] = att_sent[1] /\ att_sent[1] <= max_pages))
    /\ [](Listed =>
            /\ att_sent[1] <= max_pages
            /\ ret[1].data = PagesUpTo(ret[1].pages_fetched)
            /\ ret[1].total_fetched = Len(ret[1].data)
            /\ Len(ret[1].data) <= max_pages * per_page
            /\ \/ att_sent[1] = ret[1].pages_fetched + 1
               \/ att_sent[1] = ret[1].pages_fetched /\ att_sent[1] = max_pages)
    /\ [][/\ (pc[1] = "wait" /\ pc'[1] = "wait" /\ attempt' = attempt)
               => /\ page'[1] = page[1] + 1
                  /\ page[1] < max_pages
                  /\ PageItems(page[1]) # <<>>
                  /\ all_repos'[1] = all_repos[1] \o PageItems(page[1])
          /\ (pc[1] = "wait" /\ Listed')
               => \/ ret'[1].data = all_repos[1]
                  \/ page[1] = max_pages]_vars

C11_Witness ==
    /\ Listed
    /\ att_sent[1] = max_pages
    /\ Len(ret[1].data) = max_pages * per_page

(* C12: in the metadata get_repositories returns, has_more is true iff one  *)
(* of the non-empty pages it collected carried a rel="next" link, and       *)
(* limit_reached is true iff page 10 was collected and carried one; so      *)
(* limit_reached implies has_more and pages_fetched = 10, and ten full      *)
(* pages each carrying a next link give limit_reached.                      *)
C12_PaginationFlags ==
    Listed =>
        LET m == ret[1] IN
        /\ m.has_more = (\E p \in 1..m.pages_fetched : LinkNext(p))
        /\ m.limit_reached = (m.pages_fetched = max_pages /\ LinkNext(max_pages))
        /\ m.limit_reached => (m.has_more /\ m.pages_fetched = max_pages)
        /\ (m.pages_fetched = max_pages /\ (1..max_pages) \subseteq upstream.links)
              => m.limit_reached

C12_Witness ==
    /\ Listed
    /\ ret[1].limit_reached
    /\ ret[1].has_more
    /\ Len(ret[1].data) = max_pages * per_page

----------------------------------------------------------------------------
(* get_user_complete_info: partial failures of the fan-out *)

(* The three calls of request r have ended *)
Joined(r) == spc[r] = "done" /\ \A i \in 2..4 : pc[Slot(r, i)] = "done"
Failed(t) == pc[t] = "done" /\ outcome[t] = "raised"
Succeeded(t) == pc[t] = "done" /\ outcome[t] = "ok"
Responded(r) == response[r] # None
TheResponse(r) == response[r][1]

(* What a response says of one sub-resource: the field, the flag, the error *)
ReportsFailure(field, flag, errors, err, t) ==
    /\ field = <<>>
    /\ flag = TRUE
    /\ errors # None
    /\ err = Some(Str(exc[t]))
ReportsSuccess(field, flag, errors, err, t, kind) ==
    /\ field = transform(kind, ret[t].data)
    /\ flag = FALSE
    /\ err = None
Reports(field, flag, errors, err, t, kind) ==
    IF Failed(t) THEN ReportsFailure(field, flag, errors, err, t)
    ELSE ReportsSuccess(field, flag, errors, err, t, kind)
ErrorOf(errors, k) == IF errors = None THEN None ELSE errors[1][k]

(* C13: once the identity fetch has succeeded, whichever of the three      *)
(* fan-out calls fail and however they fail, get_user_complete_info        *)
(* returns a response, in which a failed sub-resource is the empty list    *)
(* with its flag true and its error string recorded, and a sub-resource    *)
(* that succeeded holds the projected data with its flag false and its     *)
(* error null.                                                             *)
C13_EveryCombinationResponds ==
    \A r \in Requests :
        Joined(r) =>
            /\ Responded(r)
            /\ LET u == TheResponse(r)
                   e == u.errors
                   f == u.partial_failures
               IN /\ Reports(u.repositories, f.repositories, e,
                             ErrorOf(e, "repositories"), Slot(r, 2), "repository")
                  /\ Reports(u.organizations, f.organizations, e,
                             ErrorOf(e, "organizations"), Slot(r, 3), "organization")
                  /\ Reports(u.pull_requests, f.pull_requests, e,
                             ErrorOf(e, "pull_requests"), Slot(r, 4), "pull_request")

(* C14: in every response metadata.errors is non-null exactly when one of  *)
(* the three sub-calls failed, whatever the text of the failure message,   *)
(* which is exactly when one of the three partial_failures flags is true;  *)
(* the flags are three booleans.                                           *)
C14_ErrorsIffFailure ==
    \A r \in Requests :
        Responded(r) =>
            LET u == TheResponse(r)
                f == u.partial_failures
            IN /\ DOMAIN f = {"repositories", "organizations", "pull_requests"}
               /\ \A k \in DOMAIN f : f[k] \in BOOLEAN
               /\ (u.errors # None) <=> (\E i \in 2..4 : Failed(Slot(r, i)))
               /\ (u.errors = None) <=> (\A k \in DOMAIN f : f[k] = FALSE)

----------------------------------------------------------------------------
(* get_user_complete_info: the identity fetch comes first *)

(* get_user_info has returned data whose login is null or empty *)
NoUsername(r) == Succeeded(Slot(r, 1)) /\ ret[Slot(r, 1)].data[1] = ""
(* No call of the fan-out of request r has been created or started *)
FanOutNotStarted(r) ==
    /\ \A i \in 2..4 : pc[Slot(r, i)] = "idle" /\ op[Slot(r, i)] = "none"
    /\ \A i \in 1..Len(ready) : RequestOf(ready[i]) # r
    /\ \A o \in Ops \ {"get_user_info"} : op_calls[r][o] = 0

(* C15: when get_user_info fails, or returns data without a usable login,  *)
(* none of get_repositories, get_organizations, get_pull_requests is ever  *)
(* started, and get_user_complete_info ends by raising that error (the     *)
(* exception of get_user_info, or the ValueError for the missing login)    *)
(* without a response.                                                     *)
C15_IdentityFailureAborts ==
    \A r \in Requests :
        (Failed(Slot(r, 1)) \/ NoUsername(r)) =>
            /\ FanOutNotStarted(r)
            /\ ~ Responded(r)
            /\ spc[r] \in {"user", "done"}
            /\ spc[r] = "done" =>
                   svc_exc[r] = IF Failed(Slot(r, 1)) THEN exc[Slot(r, 1)]
                                ELSE ValueError

C15_Witness ==
    /\ spc[1] = "done"
    /\ NoUsername(1)
    /\ svc_exc[1] = ValueError
    /\ FanOutNotStarted(1)

----------------------------------------------------------------------------
(* get_user_complete_info: the calls of the fan-out fail independently *)

FanOut == 2..4
FieldOf(u, i) ==
    IF i = 2 THEN u.repositories
    ELSE IF i = 3 THEN u.organizations ELSE u.pull_requests
FlagOf(u, i) ==
    IF i = 2 THEN u.partial_failures.repositories
    ELSE IF i = 3 THEN u.partial_failures.organizations
    ELSE u.partial_failures.pull_requests
KindOf(i) ==
    IF i = 2 THEN "repository" ELSE IF i = 3 THEN "organization" ELSE "pull_request"
(* The fan-out of request r has been started *)
FannedOut(r) == \E i \in FanOut : pc[Slot(r, i)] # "idle"

(* C16: when one call of the fan-out fails, its siblings are neither       *)
(* cancelled nor failed by it: get_user_complete_info ends only after all  *)
(* three calls have run to their end, and each sibling that returned its   *)
(* data is in the response as a success, with that data projected and its  *)
(* flag false.                                                             *)
C16_SiblingsUnaffected ==
    \A r \in Requests :
        spc[r] = "done" /\ FannedOut(r) =>
            /\ \A i \in FanOut : pc[Slot(r, i)] = "done"
            /\ \A i, j \in FanOut :
                  (i # j /\ Failed(Slot(r, j)) /\ Succeeded(Slot(r, i))) =>
                      /\ Responded(r)
                      /\ FieldOf(TheResponse(r), i)
                             = transform(KindOf(i), ret[Slot(r, i)].data)
                      /\ FlagOf(TheResponse(r), i) = FALSE

----------------------------------------------------------------------------
(* get_user_complete_info: order of the identity fetch, the fan-out and the *)
(* assembly of the response                                                 *)

(* Task t, a call of the fan-out, starts to run in this step *)
Starts(t) == pc[t] = "idle" /\ pc'[t] # "idle"
(* get_user_complete_info of request r ends in this step *)
Ends(r) == spc[r] # "done" /\ spc'[r] = "done"

(* C17: a call of the fan-out starts only after get_user_info has returned *)
(* the user, and the response is assembled only after all three calls of   *)
(* the fan-out have ended, in whatever order they end.                     *)
C17_IdentityThenBarrier ==
    /\ [](\A r \in Requests :
            /\ FannedOut(r) => Succeeded(Slot(r, 1)) /\ spc[r] \in {"fanout", "done"}
            /\ Responded(r) => \A i \in FanOut : pc[Slot(r, i)] = "done")
    /\ [][\A r \in Requests :
            /\ \A i \in FanOut : Starts(Slot(r, i)) => Succeeded(Slot(r, 1))
            /\ (response'[r] # response[r] \/ (Ends(r) /\ FannedOut(r))) =>
                   \A i \in FanOut : pc[Slot(r, i)] = "done"]_vars

C17_Witness ==
    /\ Responded(1)
    /\ Succeeded(Slot(1, 1))
    /\ Failed(Slot(1, 2))
    /\ Succeeded(Slot(1, 3))
    /\ Failed(Slot(1, 4))

----------------------------------------------------------------------------
(* get_user_complete_info: the fan-out is concurrent *)

(* Task t has been started and has not ended: it waits for the provider,   *)
(* for the rate limiter or for its next attempt                            *)
InFlight(t) == pc[t] \notin {"idle", "done"}

(* C18: the three calls of the fan-out run at the same time: none of them  *)
(* ends before all three have been started, and a call is never started    *)
(* after a sibling has ended.                                              *)
C18_FanOutInFlightTogether ==
    /\ [](\A r \in Requests :
            (\E i \in FanOut : pc[Slot(r, i)] = "done") =>
                \A j \in FanOut : pc[Slot(r, j)] # "idle")
    /\ [][\A r \in Requests : \A i \in FanOut :
            Starts(Slot(r, i)) =>
                /\ InFlight(Slot(r, i))'
                /\ \A j \in FanOut : pc[Slot(r, j)] # "done"]_vars

C18_Witness ==
    /\ spc[1] = "fanout"
    /\ \A i \in FanOut : InFlight(Slot(1, i)) /\ op[Slot(1, i)] = FanOutOps[i - 1]

----------------------------------------------------------------------------
(* get_user_complete_info: concurrent requests on one service and client *)

(* The ids of the items the provider holds for the token of request r *)
OwnIds(r) == (IdsPerUser * (r - 1) + 1)..(IdsPerUser * r)
OnlyOwn(r, xs) == \A i \in 1..Len(xs) : xs[i].id \in OwnIds(r)
(* A response of request r with the three sub-resources and no failure *)
Full(r, u) ==
    /\ u.user = Login(r)
    /\ u.repositories = transform("repository", ret[Slot(r, 2)].data)
    /\ u.organizations = transform("organization", ret[Slot(r, 3)].data)
    /\ u.pull_requests = transform("pull_request", ret[Slot(r, 4)].data)
    /\ u.organizations # <<>> /\ u.pull_requests # <<>>
    /\ u.repositories_metadata.total_fetched = Len(u.repositories)
    /\ u.errors = None
    /\ \A k \in DOMAIN u.partial_failures : u.partial_failures[k] = FALSE

(* C19: with requests running concurrently on the shared service and       *)
(* client and every upstream call succeeding, each request ends with a     *)
(* full response, calls each of the four operations exactly once (the      *)
(* search with its own login), and its response holds its own login and    *)
(* only items its own calls returned; and every request does end.          *)
C19_ConcurrentRequestsIsolated ==
    /\ [](\A r \in Requests :
            /\ \A o \in Ops : op_calls[r][o] <= 1
            /\ pc[Slot(r, 4)] # "idle" => username[Slot(r, 4)] = Login(r)
            /\ spc[r] = "done" =>
                  /\ Responded(r)
                  /\ \A o \in Ops : op_calls[r][o] = 1
                  /\ Full(r, TheResponse(r))
                  /\ OnlyOwn(r, TheResponse(r).repositories)
                  /\ OnlyOwn(r, TheResponse(r).organizations)
                  /\ OnlyOwn(r, TheResponse(r).pull_requests))
    /\ <>(\A r \in Requests : Responded(r))

C19_Witness ==
    /\ Responded(2)
    /\ Full(2, TheResponse(2))
    /\ TheResponse(2).repositories # <<>>
    /\ spc[1] = "fanout"
    /\ \E i \in FanOut : InFlight(Slot(1, i))
    /\ \E i \in FanOut : Succeeded(Slot(1, i))

----------------------------------------------------------------------------
(* 2xx responses of unexpected shape *)

Structural == {"ValueError", "AttributeError"}
(* Every element the operation returned is an object *)
OnlyObjects(t) == \A i \in 1..Len(ret[t].data) : ret[t].data[i] # NonObject

(* C20: a 2xx response of unexpected shape makes no listing operation      *)
(* raise: get_repositories, get_organizations and get_pull_requests never  *)
(* end with a structural error and return no element of unexpected shape   *)
(* (they degrade to the empty result or the pages collected so far), and   *)
(* the aggregation whose fan-out has ended returns a response; a           *)
(* structural error comes from get_user_info only, before the fan-out.     *)
C20_ShapeErrorsDegrade ==
    \A r \in Requests :
        /\ \A i \in FanOut :
              /\ Failed(Slot(r, i)) => exc[Slot(r, i)].kind \notin Structural
              /\ Succeeded(Slot(r, i)) => OnlyObjects(Slot(r, i))
        /\ Joined(r) => Responded(r)
        /\ (spc[r] = "done" /\ svc_exc[r].kind \in Structural) =>
              /\ ~ FannedOut(r)
              /\ svc_exc[r] = ValueError

----------------------------------------------------------------------------
(* The inbound endpoint *)

Answered(r) == http_response[r] # None
StatusOf(r) == http_response[r][1].status

(* C21: when the identity fetch fails, the endpoint answers 401 to an      *)
(* upstream 401, 403 to an upstream 403, 502 to any other upstream error   *)
(* status (a 5xx or 429 that lasted through the retries included), 408 to  *)
(* an upstream timeout, and 500 to any other failure.                      *)
C21_IdentityFailureStatus ==
    \A r \in Requests :
        (Answered(r) /\ Failed(Slot(r, 1))) =>
            LET e == exc[Slot(r, 1)]
            IN StatusOf(r) =
                  IF e.kind = "HTTPStatusError"
                  THEN IF e.status \in {401, 403} THEN e.status ELSE 502
                  ELSE IF e.kind = "TimeoutException" THEN 408
                  ELSE 500

(* The parts of header h, and whether it is a scheme Bearer or Token, in   *)
(* any case, followed by one credential                                    *)
PartsOf(h) == { i \in 1..Len(h) : h[i] # SP }
SchemeOf(h) == h[CHOOSE i \in PartsOf(h) : \A j \in PartsOf(h) : i <= j]
WellFormed(h) ==
    /\ Cardinality(PartsOf(h)) = 2
    /\ SchemeOf(h) \in {"Bearer", "bearer", "BEARER", "Token", "token", "TOKEN"}
Invoked(r) == spc[r] # "idle" \/ \E o \in Ops : op_calls[r][o] > 0

(* C22: the endpoint takes a credential only from an Authorization header  *)
(* of exactly two whitespace-separated parts whose scheme is Bearer or     *)
(* Token in any case, and then calls the aggregation service; for a        *)
(* missing header, another number of parts or another scheme it never      *)
(* calls the service and answers 401 with error, detail and status_code.   *)
C22_OnlyBearerOrToken ==
    \A r \in Requests :
        /\ Invoked(r) => WellFormed(auth_header[r])
        /\ Answered(r) =>
              IF WellFormed(auth_header[r])
              THEN spc[r] = "done" /\ op_calls[r]["get_user_info"] = 1
              ELSE /\ StatusOf(r) = 401
                   /\ DOMAIN http_response[r][1].body
                         = {"error", "detail", "status_code"}
                   /\ http_response[r][1].body.status_code = 401

C22_Witness ==
    /\ Answered(1)
    /\ Len(split(auth_header[1])) = 2
    /\ split(auth_header[1])[1] = "Basic"
    /\ StatusOf(1) = 401
    /\ ~ Invoked(1)

----------------------------------------------------------------------------
(* The projections of the service *)

(* The part of string str after its last but one "/", the whole of it when *)
(* it has fewer than two                                                   *)
Slashes(str) == { i \in 1..Len(str) : str[i] = "/" }
LastTwoSegments(str) ==
    IF Cardinality(Slashes(str)) < 2 THEN str
    ELSE LET last == CHOOSE i \in Slashes(str) : \A j \in Slashes(str) : j <= i
             before == CHOOSE i \in Slashes(str) \ {last} :
                          \A j \in Slashes(str) \ {last} : j <= i
         IN SubSeq(str, before + 1, Len(str))

(* C23: the repository of a projected pull request is the last two         *)
(* "/"-delimited segments of its repository_url joined by "/", and is      *)
(* "unknown" when repository_url is absent or empty.                       *)
C23_RepositoryFromUrl ==
    proj_out # None =>
        IF ~ proj_in.has_url \/ proj_in.null \/ proj_in.url = <<>>
        THEN proj_out[1] = Unknown
        ELSE proj_out[1] = LastTwoSegments(proj_in.url)

C23_Witness ==
    /\ proj_in = PullRequest(TRUE, FALSE, <<"r", "/", "a", "/", "w">>)
    /\ proj_out = Some(<<"a", "/", "w">>)

----------------------------------------------------------------------------
(* get_user_complete_info: repeated calls *)

(* Request r has returned a response without a partial failure *)
Successful(r) ==
    /\ Responded(r)
    /\ \A i \in FanOut : Succeeded(Slot(r, i))
    /\ TheResponse(r).errors = None

(* C24: two successful calls of get_user_complete_info against the same    *)
(* upstream data return equal values, whatever the rate-limit state, the   *)
(* breaker state and the order in which the calls of the fan-out ended.    *)
C24_SameDataSameResponse ==
    \A r1, r2 \in Requests :
        (Successful(r1) /\ Successful(r2)) => response[r1] = response[r2]

C24_Witness ==
    /\ Successful(1)
    /\ Successful(2)
    /\ attempt[Slot(1, 4)] > 1
    /\ attempt[Slot(2, 4)] = 1
    /\ rate_limit_remaining = RateLimitFloor + 1
    /\ TheResponse(1).repositories # <<>>

(* C25: _transform_repositories returns a list of the length and in the    *)
(* order of its input, each element with exactly the nine keys, each value *)
(* copied from the source object, private being false and                  *)
(* stargazers_count 0 when the source has no such key; and on success      *)
(* repositories_metadata.total_fetched is the length of that list.         *)
C25_RepositoryProjection ==
    proj_out # None =>
        LET out == proj_out[1].repositories
        IN /\ Len(out) = Len(proj_in)
           /\ \A i \in 1..Len(out) :
                 /\ DOMAIN out[i] = RepoKeys
                 /\ \A k \in RepoKeys :
                       IF k \in DOMAIN proj_in[i] THEN out[i][k] = proj_in[i][k]
                       ELSE /\ k = "private" => out[i][k] = FALSE
                            /\ k = "stargazers_count" => out[i][k] = 0
           /\ proj_out[1].repositories_metadata.total_fetched = Len(out)

C25_Witness ==
    /\ proj_out # None
    /\ Len(proj_in) = 2
    /\ proj_in[1] = Repo(RepoKeys \ {"private"}, 2)
    /\ proj_in[2] = Repo(RepoKeys \cup {"id"}, 1)
    /\ proj_out[1].repositories[1]["private"] = FALSE
    /\ proj_out[1].repositories[2]["private"] = TRUE
    /\ proj_out[1].repositories_metadata.total_fetched = 2

----------------------------------------------------------------------------
(* Task t's request ends in this step with a connect failure *)
ConnectFails(t) ==
    /\ pc[t] = "wait"
    /\ pc'[t] # "wait"
    /\ exc'[t].kind = "ConnectError"

(* C26 as stated: a connect failure that is not a timeout is transient: the *)
(* operation whose request fails to connect is retried, like a timeout,     *)
(* while attempts remain.                                                   *)
C26_ConnectFailureRetried ==
    [][\A t \in Tasks :
          (ConnectFails(t) /\ attempt[t] < MaxAttempts)
             => (pc'[t] = "backoff" /\ is_transient_error(exc'[t]))]_vars

(* C26: a connect failure that is not a timeout is classified permanent:   *)
(* the operation whose request fails to connect ends in that step with the  *)
(* connect error itself, whatever the attempt number; it does not back off, *)
(* makes no further attempt and is never wrapped as used-up retries.        *)
C26_ConnectFailureEndsOperation ==
    /\ [](\A t \in Tasks :
            exc[t].kind = "ConnectError"
               => (~ exc[t].retry_error /\ pc[t] # "backoff"))
    /\ [][\A t \in Tasks :
            ConnectFails(t)
               => /\ ~ is_transient_error(exc'[t])
                  /\ pc'[t] = "done"
                  /\ outcome'[t] = "raised"
                  /\ exc'[t] = ConnectError
                  /\ attempt'[t] = attempt[t]
                  /\ wake_at'[t] = NoTime]_vars

C26_Witness ==
    \E t \in Tasks :
        /\ pc[t] = "done"
        /\ outcome[t] = "raised"
        /\ exc[t] = ConnectError
        /\ attempt[t] = 1
        /\ att_sent[t] >= 1

----------------------------------------------------------------------------
(* Task t holds the rate-limit lock throughout this step: it is in its     *)
(* pacing sleep before the step and after it                                *)
HoldsRateLimitLock(t) ==
    /\ rate_limit_lock = t
    /\ pc[t] = "rl_sleep"
    /\ pc'[t] = "rl_sleep"

(* C27 as stated: every write to the rate-limit state is done holding the  *)
(* rate-limit lock, so while a task holds the lock in its pacing sleep no   *)
(* other task's response changes the state, and the sleeper's reset to 5000 *)
(* overwrites no quota value recorded after its sleep began.                *)
C27_WritesHoldTheLock ==
    [][\A t \in Tasks :
          HoldsRateLimitLock(t)
             => /\ rate_limit_remaining' = rate_limit_remaining
                /\ rate_limit_reset' = rate_limit_reset]_vars

(* A quota value recorded during the holder's pacing sleep: the next wake   *)
(* of the sleeper overwrites it with 5000                                   *)
C27_LostUpdate ==
    \E t \in Tasks :
        /\ rate_limit_lock = t
        /\ pc[t] = "rl_sleep"
        /\ rate_limit_remaining > RateLimitFloor

----------------------------------------------------------------------------
(* The quota values a response may report in both headers *)
QuotaRemaining == HdrRemaining \ {NoHeader}
QuotaReset == HdrResetOffset \ {NoHeader}

(* Task t receives in this step a 2xx response reporting hr and hs *)
Receives(t, hr, hs) == SuccessSteps(t, {hr}, {hs})

(* C28 as stated: after every 2xx response that carries both quota         *)
(* headers, for each of the four operations and for every page fetched by   *)
(* get_repositories, the rate-limit state equals the reported values.       *)
C28_EveryResponseOverwrites ==
    [][\A t \in Tasks, hr \in QuotaRemaining, hs \in QuotaReset :
          Receives(t, hr, hs)
             => /\ rate_limit_remaining' = hr
                /\ rate_limit_reset' = now + hs]_vars

(* C28: after a 2xx response that carries both quota headers the           *)
(* rate-limit state equals the reported values for get_user_info,           *)
(* get_organizations, get_pull_requests and for page 1 of get_repositories; *)
(* the response to a later page of get_repositories leaves the rate-limit   *)
(* state as it was.                                                         *)
C28_FirstPageOverwrites ==
    [][\A t \in Tasks, hr \in QuotaRemaining, hs \in QuotaReset :
          Receives(t, hr, hs)
             => IF op[t] = "get_repositories" /\ page[t] > 1
                THEN /\ rate_limit_remaining' = rate_limit_remaining
                     /\ rate_limit_reset' = rate_limit_reset
                ELSE /\ rate_limit_remaining' = hr
                     /\ rate_limit_reset' = now + hs]_vars

C28_Witness ==
    \E t \in Tasks :
        /\ op[t] = "get_repositories"
        /\ pc[t] = "done"
        /\ outcome[t] = "ok"
        /\ att_sent[t] >= 2
        /\ rate_limit_remaining \in QuotaRemaining
        /\ rate_limit_reset = now + 60

----------------------------------------------------------------------------
(* Task t is suspended: in its request, its pacing sleep or its backoff *)
Suspended(t) == pc[t] \in {"wait", "rl_sleep", "backoff"}

(* Task u waits for the rate-limit lock another task holds *)
Blocked(u) == pc[u] = "rl" /\ rate_limit_lock \notin {0, u}

(* C29 as stated: the suspension of one task never blocks another: no task *)
(* is held up at the rate-limiter gate while another task is suspended.     *)
C29_SuspensionNeverBlocks ==
    \A t, u \in Tasks : (t # u /\ Suspended(t)) => ~ Blocked(u)

(* C29: a task suspended in its request or in its retry backoff holds no   *)
(* lock and blocks nobody; a task in its pacing sleep holds the rate-limit  *)
(* lock, and a task that reaches the rate limiter meanwhile waits for it:   *)
(* a task is held up at the gate only by a task in its pacing sleep, and    *)
(* goes on to its own pacing sleep or request once it has the lock.         *)
C29_OnlyPacingSleepBlocks ==
    /\ [](\A t \in Tasks :
            rate_limit_lock = t => pc[t] = "rl_sleep")
    /\ [](\A u \in Tasks :
            Blocked(u) => pc[rate_limit_lock] = "rl_sleep")
    /\ [][\A u \in Tasks :
            /\ (pc[u] # "rl" /\ pc'[u] = "rl")
                  => (rate_limit_lock \in Tasks \ {u}
                      /\ pc[rate_limit_lock] = "rl_sleep")
            /\ (pc[u] = "rl" /\ pc'[u] # "rl")
                  => (rate_limit_lock = 0 /\ pc'[u] \in {"rl_sleep", "wait"})]_vars

C29_Witness ==
    \E t, u \in Tasks :
        /\ pc[t] = "rl_sleep"
        /\ rate_limit_lock = t
        /\ pc[u] = "rl"
        /\ attempt[u] = 2

----------------------------------------------------------------------------
(* The tasks in their pacing sleep *)
Sleepers == { t \in Tasks : pc[t] = "rl_sleep" }

(* Task u, which waited for the rate-limit lock, gets it in this step *)
Acquires(u) == pc[u] = "rl" /\ pc'[u] # "rl"

(* C30: when tasks meet at the rate limiter, the lock serializes them: at  *)
(* most one task is in the pacing sleep, it is the one the others wait for, *)
(* and its wake resets remaining to 5000 and frees the lock; a task that    *)
(* waited gets the lock only when it is free, sleeps only if remaining is   *)
(* <= 10 at that moment, and otherwise goes on to its request in that step  *)
(* without changing the rate-limit state.                                   *)
C30_LockSerializesPacing ==
    /\ [](Cardinality(Sleepers) <= 1)
    /\ [](\A u \in Tasks :
            (pc[u] = "rl" /\ rate_limit_lock # 0)
               => Sleepers = {rate_limit_lock} /\ rate_limit_lock # u)
    /\ [][\A t \in Tasks :
            /\ Wakes(t)
                  => (rate_limit_lock = t
                      /\ rate_limit_remaining' = RateLimitCeiling
                      /\ rate_limit_lock' = 0)
            /\ Acquires(t)
                  => (rate_limit_lock = 0 /\ pc'[t] \in {"rl_sleep", "wait"})
            /\ (Acquires(t) /\ pc'[t] = "rl_sleep")
                  => (rate_limit_remaining <= RateLimitFloor
                      /\ rate_limit_lock' = t
                      /\ wake_at'[t] = rate_limit_reset)
            /\ (Acquires(t) /\ rate_limit_remaining > RateLimitFloor)
                  => (pc'[t] = "wait" /\ rate_limit_lock' = 0
                      /\ UNCHANGED <<now, rateVars>>)]_vars

C30_Witness ==
    \E t, u \in Tasks :
        /\ pc[t] = "wait"
        /\ slept[t]
        /\ pc[u] = "rl"
        /\ rate_limit_lock = 0
        /\ rate_limit_remaining = RateLimitCeiling

----------------------------------------------------------------------------
(* Task t's attempt sends its first request in this step *)
FirstSend(t) == pc[t] # "wait" /\ pc'[t] = "wait"

(* Task t's attempt comes to the rate limiter in this step *)
ReachesLimiter(t) ==
    /\ pc[t] \notin {"rl", "rl_sleep"}
    /\ pc'[t] \in {"rl", "rl_sleep"}

(* C31: every attempt, retries included, consults the breaker first, then  *)
(* the rate limiter, and only then sends a request: an attempt the breaker  *)
(* rejects ends there, whatever the quota, without taking the rate-limit    *)
(* lock, sleeping or sending; an attempt comes to the rate limiter only in  *)
(* the step in which the breaker admitted it, and sends its first request   *)
(* only when the limiter lets it through in that step, or after its wait    *)
(* for the lock or its pacing sleep.                                        *)
C31_BreakerThenLimiterThenRequest ==
    [][\A t \in Tasks :
         /\ (BeforeCall(t) /\ InCooldown)
               => /\ Rejected(t)'
                  /\ ~ slept'[t]
                  /\ UNCHANGED <<rateVars, rate_limit_lock>>
         /\ (BeforeCall(t) /\ ~ InCooldown)
               => /\ Admitted(t)'
                  /\ ~ circuit_open'
                  /\ pc'[t] = "rl" <=> rate_limit_lock # 0
                  /\ pc'[t] = "rl_sleep" <=>
                        (rate_limit_lock = 0
                         /\ rate_limit_wait(rate_limit_remaining,
                                            rate_limit_reset, now) > 0)
         /\ ReachesLimiter(t) => (BeforeCall(t) /\ ~ InCooldown)
         /\ FirstSend(t)
               => /\ att_sent'[t] = 1
                  /\ rate_limit_lock' = 0
                  /\ \/ pc[t] = "rl_sleep"
                     \/ /\ pc[t] = "rl" \/ (BeforeCall(t) /\ ~ InCooldown)
                        /\ rate_limit_lock = 0
                        /\ rate_limit_wait(rate_limit_remaining,
                                           rate_limit_reset, now) = 0]_vars

C31_Witness ==
    \E t \in Tasks :
        /\ Rejected(t)
        /\ attempt[t] >= 2
        /\ rate_limit_lock = 0
        /\ rate_limit_remaining <= RateLimitFloor
        /\ rate_limit_reset > now

----------------------------------------------------------------------------
(* The breaker's open flag goes from true to false in this step *)
Closes == circuit_open /\ ~ circuit_open'

(* Task t's operation returns normally in this step and _record_success    *)
(* was applied: the breaker is left with no failures                        *)
RecordsSuccess(t) == Returns(t) /\ circuit_failures' = 0

(* C32: the open flag goes from true to false only in a                    *)
(* _check_circuit_breaker() made once the cooldown has elapsed since the    *)
(* last failure, or in the _record_success() of an operation that returns   *)
(* after a success response; a failing attempt, a _check_circuit_breaker()  *)
(* within the cooldown, the rate limiter's steps and the passing of time    *)
(* leave an open breaker open.                                              *)
C32_ClosesOnlyTwoWays ==
    [][/\ Closes => \E t \in Tasks : \/ BeforeCall(t) /\ CooldownOver
                                     \/ RecordsSuccess(t)
       /\ \A t \in Tasks :
            /\ (BeforeCall(t) /\ InCooldown) => ~ Closes
            /\ (pc[t] = "wait" /\ pc'[t] # "wait" /\ outcome'[t] # "ok") => ~ Closes
            /\ (pc[t] \in {"rl", "rl_sleep"} /\ pc'[t] # pc[t]) => ~ Closes
       /\ now' # now => ~ Closes]_vars

C32_Witness ==
    \E t, u \in Tasks :
        /\ Rejected(t)
        /\ Succeeded(u)
        /\ ~ circuit_open
        /\ circuit_failures = 0
        /\ now - circuit_last_failure_time < circuit_reset_timeout

----------------------------------------------------------------------------
(* The attempt of task t that closed the breaker after the cooldown fails  *)
(* in this step with a failure the breaker counts                           *)
ProbeFails(t) ==
    /\ probe[t]
    /\ AttemptRaises(t)
    /\ exc'[t].kind \in {"HTTPStatusError", "TimeoutException"}

(* C33: when the attempt that closed the breaker after the cooldown fails, *)
(* the failure is counted as one more: it is the 1st, and the breaker stays *)
(* closed, when nothing failed since the closing; the breaker goes from     *)
(* closed to open only in a step that brings the count to the threshold.    *)
C33_FailedProbeCountsOne ==
    [][/\ \A t \in Tasks :
            ProbeFails(t)
               => /\ circuit_failures' = circuit_failures + 1
                  /\ circuit_last_failure_time' = now
                  /\ circuit_failures = 0
                        => (circuit_failures' = 1 /\ ~ circuit_open')
                  /\ circuit_failures' < circuit_failure_threshold
                        => circuit_open' = circuit_open
       /\ (~ circuit_open /\ circuit_open')
             => /\ circuit_failures' = circuit_failures + 1
                /\ circuit_failures' >= circuit_failure_threshold]_vars

C33_Witness ==
    \E t \in Tasks :
        /\ probe[t]
        /\ pc[t] = "backoff"
        /\ exc[t].kind = "TimeoutException"
        /\ circuit_failures = 1
        /\ ~ circuit_open
        /\ circuit_last_failure_time = now

----------------------------------------------------------------------------
(* Task t's attempt fails in this step and the retry layer starts a        *)
(* backoff sleep of d seconds                                               *)
BacksOff(t, d) ==
    /\ pc[t] = "wait"
    /\ pc'[t] = "backoff"
    /\ wake_at'[t] = now + d

(* C34 as stated: the retry backoff doubles from 2 seconds and is capped   *)
(* at 10 seconds: the sleep before the 2nd attempt lasts 2 s, the sleep     *)
(* before the 3rd attempt lasts 4 s, and no sleep lasts more than 10 s.     *)
C34_BackoffDoubles ==
    [][\A t \in Tasks :
         (pc[t] = "wait" /\ pc'[t] = "backoff")
            => /\ attempt[t] = 1 => BacksOff(t, 2)
               /\ attempt[t] = 2 => BacksOff(t, 4)
               /\ wake_at'[t] - now <= WaitMax]_vars

(* The sleep before the 3rd attempt lasts 2 seconds *)
C34_SecondBackoffTwoSeconds ==
    \E t \in Tasks :
        /\ pc[t] = "backoff"
        /\ attempt[t] = 2
        /\ wake_at[t] = circuit_last_failure_time + 2

----------------------------------------------------------------------------
(* C35: every aggregation request terminates: once get_user_complete_info  *)
(* has been called it eventually returns or raises, given that the event    *)
(* loop keeps running, every request is answered or times out and the      *)
(* quota reset time is reached.                                             *)
C35_AggregationTerminates ==
    \A r \in {1} : (spc[r] # "idle") ~> (spc[r] = "done")

C35_Witness ==
    /\ spc[1] = "done"
    /\ Responded(1)
    /\ slept[Slot(1, 2)]
    /\ attempt[Slot(1, 4)] = MaxAttempts
    /\ TheResponse(1).repositories_metadata.limit_reached

----------------------------------------------------------------------------
(* Task t's backoff sleep ends in this step: its next attempt starts *)
Retries(t) == pc[t] = "backoff" /\ pc'[t] # "backoff"

(* C36: when the breaker is open while an operation waits in its retry     *)
(* backoff, the backoff ends inside the cooldown, and the attempt that      *)
(* starts then is rejected by _check_circuit_breaker: the operation ends in *)
(* that step on the circuit-open error itself, in place of the upstream     *)
(* failure it was retrying, without a request, without a rate-limiter       *)
(* step, and without another failure being counted.                         *)
C36_OpenBreakerEndsRetries ==
    /\ [](\A t \in Tasks :
            (pc[t] = "backoff" /\ circuit_open)
               => wake_at[t] < circuit_last_failure_time + circuit_reset_timeout)
    /\ [][\A t \in Tasks :
            (Retries(t) /\ InCooldown)
               => /\ is_transient_error(exc[t])
                  /\ Rejected(t)'
                  /\ ~ exc'[t].retry_error
                  /\ ~ is_transient_error(exc'[t])
                  /\ attempt'[t] = attempt[t] + 1
                  /\ rf_calls'[t] = rf_calls[t]
                  /\ UNCHANGED <<circuitVars, rateVars, rate_limit_lock>>]_vars

C36_Witness ==
    \E t \in Tasks :
        /\ Rejected(t)
        /\ attempt[t] = 2
        /\ rf_calls[t] = 1
        /\ circuit_open
        /\ circuit_failures > circuit_failure_threshold

----------------------------------------------------------------------------
(* C37: an attempt of get_repositories that fails, on whatever page, keeps *)
(* nothing of what it collected, and the operation that ends in failure     *)
(* returns no data; the retry asks for page 1 again with an empty           *)
(* accumulator; the list finally returned holds the items of the pages of   *)
(* the successful attempt, each page once and in order.                     *)
C37_RetryRestartsAtPageOne ==
    /\ [](Listed => ret[1].data = PagesUpTo(ret[1].pages_fetched))
    /\ [](Failed(1) => ret[1] = NoResult)
    /\ [][/\ AttemptRaises(1)
             => (all_repos'[1] = <<>> /\ page'[1] = 1 /\ ret'[1] = NoResult)
          /\ (Retries(1) /\ pc'[1] = "wait")
             => (all_repos'[1] = <<>> /\ page'[1] = 1 /\ att_sent'[1] = 1
                 /\ ~ has_more'[1] /\ ~ limit_reached'[1])]_vars

C37_Witness ==
    /\ pc[1] = "backoff"
    /\ op[1] = "get_repositories"
    /\ att_sent[1] >= 2
    /\ all_repos[1] = <<>>
    /\ page[1] = 1

----------------------------------------------------------------------------
(* The failures the except clause of the operations does not name *)
Uncounted == {"ValueError", "CircuitOpen", "ConnectError"}

(* Task t's operation ended in a failure that is neither a status error    *)
(* nor a timeout                                                            *)
FailedUncounted(t) ==
    /\ Failed(t)
    /\ exc[t].kind \in Uncounted
    /\ ~ exc[t].retry_error

----------------------------------------------------------------------------
(* C39: in every reachable state an open breaker has a last failure time,  *)
(* so a _check_circuit_breaker() made while the breaker is open either      *)
(* rejects the attempt or closes the breaker: it never admits an attempt    *)
(* and leaves the breaker open.                                             *)
C39_OpenHasLastFailure ==
    /\ [](circuit_open => circuit_last_failure_time # NoTime)
    /\ [](circuit_open => (InCooldown \/ CooldownOver))
    /\ [][\A t \in Tasks :
            (BeforeCall(t) /\ circuit_open)
               => \/ Rejected(t)' /\ circuit_open'
                  \/ Admitted(t)' /\ ~ circuit_open' /\ probe'[t]]_vars

C39_Witness ==
    \E t \in Tasks :
        /\ probe[t]
        /\ pc[t] = "wait"
        /\ ~ circuit_open
        /\ circuit_failures = 0
        /\ circuit_last_failure_time # NoTime
        /\ now >= circuit_last_failure_time + circuit_reset_timeout

----------------------------------------------------------------------------
(* The locks task t holds *)
HeldLocks(t) ==
    (IF rate_limit_lock = t THEN {"rate_limit"} ELSE {})
    \cup (IF circuit_lock = t THEN {"circuit"} ELSE {})
    \cup (IF client_lock = t THEN {"client"} ELSE {})

(* The lock of the block a task standing at p is inside *)
LockOf(p) ==
    CASE p \in {"cb_in", "rs_in", "rf_in"} -> {"circuit"}
      [] p \in {"rl_in", "rl_sleep"} -> {"rate_limit"}
      [] p = "gc_in" -> {"client"}
      [] OTHER -> {}

(* Task t waits for a lock that another task holds *)
WaitsForCircuitLock(t) == pc[t] \in {"cb", "rs", "rf"} /\ circuit_lock # 0
WaitsForRateLimitLock(t) == pc[t] = "rl" /\ rate_limit_lock # 0
WaitsForClientLock(t) == pc[t] = "gc_lock" /\ client_lock # 0

(* Task h can leave the block it is inside at once, without the clock *)
CanLeaveBlock(h) ==
    ENABLED (\/ CheckCircuitBreaker(h) \/ RecordSuccessLocked(h)
             \/ RecordFailureLocked(h) \/ CreateClient(h) \/ CheckRateLimit(h))

(* C40: no task holds two of the rate-limit lock, the circuit lock and the *)
(* client lock at once; a task holds a lock only while it is inside that   *)
(* lock's block, so a block left by its end or by an exception, the        *)
(* circuit-open rejection included, has released it; a task that waits for *)
(* a lock waits for a task that can leave its block at once or that sleeps *)
(* in the pacing sleep of _check_rate_limit until a set time, so no        *)
(* waiting is forever; and the holder of the circuit lock never sleeps: it *)
(* can leave at once, whoever holds the rate-limit lock                    *)
C40_LocksNeverNestNorLeak ==
    /\ \A t \in Tasks : Cardinality(HeldLocks(t)) <= 1
    /\ \A t \in Tasks : HeldLocks(t) = LockOf(pc[t])
    /\ \A t \in Tasks :
          (pc[t] \in {"backoff", "done"} /\ exc[t].kind = "CircuitOpen")
             => HeldLocks(t) = {}
    /\ \A t \in Tasks :
          /\ WaitsForCircuitLock(t)
                => circuit_lock \in Tasks \ {t} /\ CanLeaveBlock(circuit_lock)
          /\ WaitsForClientLock(t)
                => client_lock \in Tasks \ {t} /\ CanLeaveBlock(client_lock)
          /\ WaitsForRateLimitLock(t)
                => /\ rate_limit_lock \in Tasks \ {t}
                   /\ \/ CanLeaveBlock(rate_limit_lock)
                      \/ /\ pc[rate_limit_lock] = "rl_sleep"
                         /\ wake_at[rate_limit_lock] # NoTime
    /\ circuit_lock # 0
          => pc[circuit_lock] # "rl_sleep" /\ CanLeaveBlock(circuit_lock)

(* A task is inside the block of _record_success, holding the circuit     *)
(* lock, while another sleeps in _check_rate_limit holding the rate-limit  *)
(* lock                                                                     *)
C40_Witness ==
    \E t, u \in Tasks :
        /\ t # u
        /\ pc[u] = "rl_sleep" /\ rate_limit_lock = u
        /\ pc[t] = "rs_in" /\ circuit_lock = t

====
